---- MODULE Spec2Model ----
(***************************************************************************)
(* A model of the depth-map to G-code engine of src/utils/python/          *)
(* write_gcode.py: the path simplifier (douglas), the G-code emitter       *)
(* (class Gcode), the scan converters, the entry cuts, the height field    *)
(* construction of WriteGCode and the Converter's pass structure.          *)
(*                                                                         *)
(* Numbers.  Lengths are integers counted in one grid unit.  The unit is   *)
(* at least 0.01 program units, so that the emitter's guard z > -0.01 is   *)
(* z >= 0 on the grid, and the 1e-5 guards of rad1, cent1 and one_quadrant *)
(* are tests for zero.  Distances and radii are irrational in general:     *)
(* they are never computed, only compared, by comparing squares.           *)
(* A Python None is the empty tuple, a value v the tuple <<v>>.            *)
(***************************************************************************)
EXTENDS Integers, Sequences, FiniteSets, TLC

VARIABLES g,    \* the emitter (a Gcode object) and the lines it has written
          op,   \* the operation that produced the current state
          dg,   \* the simplifier's input and output (douglas called directly)
          cv,   \* the Converter
          hf,   \* the height field under construction in WriteGCode
          wg    \* a call of WriteGCode on a GCodeConfig, from call to return

vars == <<g, op, dg, cv, hf, wg>>

None == <<>>
Some(v) == <<v>>
Val(o) == o[1]

\* A variable group that a specification does not use.
Idle == [idle |-> TRUE]

Abs(n) == IF n < 0 THEN -n ELSE n

Max2(a, b) == IF a > b THEN a ELSE b
Min2(a, b) == IF a < b THEN a ELSE b
Sgn(n) == IF n < 0 THEN -1 ELSE IF n > 0 THEN 1 ELSE 0

(***************************************************************************)
(* Geometry of the simplifier.  A point is <<x, y, z>>.                    *)
(***************************************************************************)

Sq3(ax, ay, az) == ax * ax + ay * ay + az * az

\* d2 of dist_lseg: the squared length of the chord l1-l2.
ChordD2(l1, l2) == Sq3(l2[1] - l1[1], l2[2] - l1[2], l2[3] - l1[3])

\* dist_lseg(l1, l2, p) squared, times ChordD2(l1, l2): the distance of p to
\* the segment, t clamped to [0, 1].  0 when the chord has no length.
DistLseg(l1, l2, p) ==
    LET dx == l2[1] - l1[1]
        dy == l2[2] - l1[2]
        dz == l2[3] - l1[3]
        d2 == dx * dx + dy * dy + dz * dz
        tn == dx * (p[1] - l1[1]) + dy * (p[2] - l1[2]) + dz * (p[3] - l1[3])
    IN  IF d2 = 0 THEN 0
        ELSE IF tn < 0 THEN d2 * Sq3(p[1] - l1[1], p[2] - l1[2], p[3] - l1[3])
        ELSE IF tn > d2 THEN d2 * Sq3(p[1] - l2[1], p[2] - l2[2], p[3] - l2[3])
        ELSE d2 * Sq3(p[1] - l1[1], p[2] - l1[2], p[3] - l1[3]) - tn * tn

\* get_pts: the two coordinates of a point in the plane 17, 18 or 19.
GetPts(plane, p) ==
    IF plane = 17 THEN <<p[1], p[2]>>
    ELSE IF plane = 18 THEN <<p[1], p[3]>>
    ELSE <<p[2], p[3]>>

\* den of rad1 and cent1: |x12 * y23 - x23 * y12|, twice the triangle's area.
Den1(q1, q2, q3) ==
    Abs((q1[1] - q2[1]) * (q2[2] - q3[2]) - (q2[1] - q3[1]) * (q1[2] - q2[2]))

Mag2(q1, q2) == (q1[1] - q2[1]) * (q1[1] - q2[1]) + (q1[2] - q2[2]) * (q1[2] - q2[2])

Dot2(o, q1, q2) == (o[1] - q1[1]) * (o[1] - q2[1]) + (o[2] - q1[2]) * (o[2] - q2[2])

\* MAXINT, returned for "no radius": larger than every radius on the grid.
MaxIntRad == [inf |-> TRUE, n |-> 0, d |-> 1]

\* rad1: the radius through three points of the plane, as its square n / d.
Rad1(q1, q2, q3) ==
    LET den == Den1(q1, q2, q3)
    IN  IF den = 0 THEN MaxIntRad
        ELSE [inf |-> FALSE,
              n |-> Mag2(q1, q2) * Mag2(q2, q3) * Mag2(q3, q1),
              d |-> 4 * den * den]

\* arc_rad: MAXINT when no plane is active.
ArcRad(plane, P1, P2, P3) ==
    IF plane = None THEN MaxIntRad
    ELSE Rad1(GetPts(Val(plane), P1), GetPts(Val(plane), P2), GetPts(Val(plane), P3))

\* rad < min_rad of douglas.
RadLess(r1, r2) ==
    IF r1.inf THEN FALSE
    ELSE IF r2.inf THEN TRUE
    ELSE r1.n * r2.d < r2.n * r1.d

\* cent1: the centre alpha*P1 + beta*P2 + gamma*P3 with the weights over
\* 2*den*den; every weighted sum is a multiple of den, and the centre is
\* kept as <<c1, c2>> over the denominator cd = 2*den.
Cent1(q1, q2, q3) ==
    LET den   == Den1(q1, q2, q3)
        alpha == Mag2(q2, q3) * Dot2(q1, q2, q3)
        beta  == Mag2(q1, q3) * Dot2(q2, q1, q3)
        gamma == Mag2(q1, q2) * Dot2(q3, q1, q2)
    IN  [c1 |-> (alpha * q1[1] + beta * q2[1] + gamma * q3[1]) \div den,
         c2 |-> (alpha * q1[2] + beta * q2[2] + gamma * q3[2]) \div den,
         cd |-> 2 * den]

ArcCenter(plane, p1, p2, p3) ==
    Cent1(GetPts(plane, p1), GetPts(plane, p2), GetPts(plane, p3))

\* The pair of signs of a point about the centre c (sign of one_quadrant).
SignPair(c, q) == <<Sgn(c.cd * q[1] - c.c1), Sgn(c.cd * q[2] - c.c2)>>

\* if q in signs: signs.discard(a); signs.discard(b)
Discard(signs, q, a, b) == IF q \in signs THEN signs \ {a, b} ELSE signs

\* len(signs) == 1, at once or after the four discards.
OneSign(signs) ==
    \/ Cardinality(signs) = 1
    \/ Cardinality(Discard(Discard(Discard(Discard(signs,
                        <<1, 1>>, <<1, 0>>, <<0, 1>>),
                        <<1, -1>>, <<1, 0>>, <<0, -1>>),
                        <<-1, 1>>, <<-1, 0>>, <<0, 1>>),
                        <<-1, -1>>, <<-1, 0>>, <<0, -1>>)) = 1

\* one_quadrant: the three arc points lie in one quadrant about the centre,
\* a point on an axis counting with the quadrant next to it.
OneQuadrant(plane, c, p1, p2, p3) ==
    OneSign({SignPair(c, GetPts(plane, p1)), SignPair(c, GetPts(plane, p2)),
             SignPair(c, GetPts(plane, p3))})

\* The order of atan2(v[2], v[1]) in (-pi, pi]: the part of the circle the
\* vector lies in, then the turn from one vector to the other.
AngleClass(v) ==
    IF v[2] < 0 THEN 0
    ELSE IF v[2] = 0 /\ v[1] >= 0 THEN 1
    ELSE IF v[2] > 0 THEN 2
    ELSE 3

AngleLess(v, w) ==
    \/ AngleClass(v) < AngleClass(w)
    \/ /\ AngleClass(v) = AngleClass(w)
       /\ v[1] * w[2] - v[2] * w[1] > 0

\* arc_dir: theta_mid and theta_end are raised by turns of 2*pi until
\* start <= mid <= end; the arc is counter-clockwise when end < 2*pi.
ArcDir(plane, c, p1, p2, p3) ==
    LET q1 == GetPts(plane, p1)
        q2 == GetPts(plane, p2)
        q3 == GetPts(plane, p3)
        v1 == <<c.cd * q1[1] - c.c1, c.cd * q1[2] - c.c2>>
        v2 == <<c.cd * q2[1] - c.c1, c.cd * q2[2] - c.c2>>
        v3 == <<c.cd * q3[1] - c.c1, c.cd * q3[2] - c.c2>>
    IN  IF ~AngleLess(v2, v1)
        THEN IF ~AngleLess(v3, v2) THEN TRUE ELSE v3[2] < 0
        ELSE IF ~AngleLess(v3, v2) THEN v3[2] < 0 ELSE FALSE

\* A tolerance or a distance is the fraction n / d of the unit of length.
Frac(n, d) == [n |-> n, d |-> d]

\* |hypot(c - q) - radius| < t, where the point q and the squared radius
\* rn / cd^2 are in the plane and t*t = t2n / t2d.
ArcDevLess(c, rn, q, t2n, t2d) ==
    LET a == (c.cd * q[1] - c.c1) * (c.cd * q[1] - c.c1)
             + (c.cd * q[2] - c.c2) * (c.cd * q[2] - c.c2)
        l == t2d * (a + rn) - c.cd * c.cd * t2n
    IN  IF t2d = 0 THEN FALSE
        ELSE l < 0 \/ l * l < 4 * t2d * t2d * a * rn

(***************************************************************************)
(* douglas: Douglas-Peucker with the arc test.  The result is the sequence *)
(* of the generator's records [move, p, cent]; cent is None for a G1 and   *)
(* the arc's centre for a G2 or G3.  Indices count from 1.                 *)
(***************************************************************************)

RECURSIVE ScanWorst(_, _, _, _)
\* The loop over the inner points: the first point farthest from the chord
\* (worst, wd = its DistLseg) and, among the points that raised wd, the
\* first of smallest radius (max_arc, min_rad).
ScanWorst(st, plane, i, acc) ==
    IF i > Len(st) THEN acc
    ELSE IF i = 1 \/ i = Len(st) THEN ScanWorst(st, plane, i + 1, acc)
    ELSE LET dist == DistLseg(st[1], st[Len(st)], st[i])
         IN  IF dist > acc.wd
             THEN LET rad == ArcRad(plane, st[1], st[i], st[Len(st)])
                      a1  == [acc EXCEPT !.worst = i, !.wd = dist]
                      a2  == IF RadLess(rad, acc.min_rad)
                             THEN [a1 EXCEPT !.max_arc = i, !.min_rad = rad]
                             ELSE a1
                  IN  ScanWorst(st, plane, i + 1, a2)
             ELSE ScanWorst(st, plane, i + 1, acc)

ScanStart == [worst |-> 1, wd |-> 0, min_rad |-> MaxIntRad, max_arc |-> 0]

\* worst_arc_dist < tolerance and worst_arc_dist < worst_dist, with c the
\* centre of the arc: the largest deviation of the points of st from the
\* circle.  The deviations of the midpoints are computed by the code and
\* not compared with anything.
ArcFits(st, tol, plane, sc, c) ==
    /\ OneQuadrant(plane, c, st[1], st[sc.max_arc], st[Len(st)])
    /\ \A i \in 1..Len(st) :
          /\ ArcDevLess(c, sc.min_rad.n, GetPts(plane, st[i]), tol.n * tol.n, tol.d * tol.d)
          /\ ArcDevLess(c, sc.min_rad.n, GetPts(plane, st[i]),
                        sc.wd, ChordD2(st[1], st[Len(st)]))

G1Rec(p) == [move |-> "G1", p |-> p, cent |-> None]

\* The two records of an arc; ccw is arc_dir, the other way in the plane 18.
ArcRecs(st, plane, c, dir) ==
    <<G1Rec(st[1]),
      [move |-> IF dir # (plane = 18) THEN "G3" ELSE "G2", p |-> st[Len(st)],
       cent |-> Some(c)]>>

RECURSIVE Douglas(_, _, _, _)
\* The split that yields the point at worst after the part behind it.
DouglasSplitLate(st, tol, plane, first, sc) ==
    IF sc.wd * tol.d * tol.d > tol.n * tol.n * ChordD2(st[1], st[Len(st)])
    THEN (IF first THEN <<G1Rec(st[1])>> ELSE <<>>)
         \o Douglas(SubSeq(st, 1, sc.worst), tol, plane, FALSE)
         \o Douglas(SubSeq(st, sc.worst, Len(st)), tol, plane, FALSE)
         \o (IF first THEN <<G1Rec(st[Len(st)])>> ELSE <<>>)
         \o <<G1Rec(st[sc.worst])>>
    ELSE IF first THEN <<G1Rec(st[1]), G1Rec(st[Len(st)])>> ELSE <<>>

\* elif worst_dist > tolerance, and the else after it.
DouglasSplit(st, tol, plane, first, sc) ==
    IF sc.wd * tol.d * tol.d > tol.n * tol.n * ChordD2(st[1], st[Len(st)])
    THEN (IF first THEN <<G1Rec(st[1])>> ELSE <<>>)
         \o Douglas(SubSeq(st, 1, sc.worst), tol, plane, FALSE)
         \o <<G1Rec(st[sc.worst])>>
         \o Douglas(SubSeq(st, sc.worst, Len(st)), tol, plane, FALSE)
         \o (IF first THEN <<G1Rec(st[Len(st)])>> ELSE <<>>)
    ELSE IF first THEN <<G1Rec(st[1]), G1Rec(st[Len(st)])>> ELSE <<>>

\* douglas with min_rad != MAXINT, c the centre of the arc.
DouglasArc(st, tol, plane, first, sc, c) ==
    IF ArcFits(st, tol, Val(plane), sc, c)
    THEN ArcRecs(st, Val(plane), c,
                 ArcDir(Val(plane), c, st[1], st[sc.max_arc], st[Len(st)]))
    ELSE DouglasSplit(st, tol, plane, first, sc)

\* douglas after the loop over the points, sc its result.
DouglasScanned(st, tol, plane, first, sc) ==
    IF ~sc.min_rad.inf
    THEN DouglasArc(st, tol, plane, first, sc,
                    ArcCenter(Val(plane), st[1], st[sc.max_arc], st[Len(st)]))
    ELSE DouglasSplit(st, tol, plane, first, sc)

Douglas(st, tol, plane, first) ==
    IF Len(st) = 1 THEN <<G1Rec(st[1])>>
    ELSE DouglasScanned(st, tol, plane, first, ScanWorst(st, plane, 1, ScanStart))

(***************************************************************************)
(* The emitter, class Gcode.  An emitter is a record of the object's       *)
(* fields; out is the sequence of lines handed to self.write, and mach the *)
(* position and motion mode a machine is in after executing them.          *)
(* A line is a record: kind and word name the statement, x, y, z, a are    *)
(* the axis words (None: no word), c is the centre of an arc and f the     *)
(* number of an F word.  The other fields record the moment of the write:  *)
(* was and b, the emitter's lastgcode and <<lastx, lasty, lastz, lasta>>   *)
(* when move_common was entered (b is None on a line of another method);   *)
(* prev, the machine's motion mode before the line; m, its position after  *)
(* it; t, the emitter's lastx, lasty, lastz, lasta at the write.           *)
(***************************************************************************)

\* The Z word of the extra rapid of move_common, "G0 ... Z10.0".
Z10 == 10

Gcode(homeheight, safetyheight, tolerance, units, header, postscript, disable_arcs) ==
    [lastx |-> None, lasty |-> None, lastz |-> Some(safetyheight), lasta |-> None,
     lastgcode |-> "None",
     homeheight |-> homeheight, safetyheight |-> safetyheight,
     tolerance |-> tolerance, units |-> units, cuts |-> <<>>, plane |-> None,
     header |-> header, postscript |-> postscript, disable_arcs |-> disable_arcs,
     out |-> <<>>,
     mach |-> [x |-> None, y |-> None, z |-> None, a |-> None, modal |-> "None"]]

Line(kind, word, x, y, z, a) ==
    [kind |-> kind, word |-> word, x |-> x, y |-> y, z |-> z, a |-> a,
     c |-> None, f |-> None, was |-> "None", b |-> None]

\* A statement without axis words: a header line, the units, G91.1, a plane,
\* a feed, the postscript, M2.
Stmt(kind, word) == Line(kind, word, None, None, None, None)

IsMotion(l) == l.kind \in {"move", "arc"}

\* What a machine does with a line: a motion word sets the mode, an axis
\* word the axis.
Exec(m, l) ==
    IF ~IsMotion(l) THEN m
    ELSE [x |-> IF l.x # None THEN l.x ELSE m.x,
          y |-> IF l.y # None THEN l.y ELSE m.y,
          z |-> IF l.z # None THEN l.z ELSE m.z,
          a |-> IF l.a # None THEN l.a ELSE m.a,
          modal |-> IF l.word # "" THEN l.word ELSE m.modal]

\* self.write(line)
Write(e, l) ==
    LET m1 == Exec(e.mach, l)
    IN  [e EXCEPT !.out = Append(@, [kind |-> l.kind, word |-> l.word,
                                     x |-> l.x, y |-> l.y, z |-> l.z, a |-> l.a,
                                     c |-> l.c, f |-> l.f, was |-> l.was, b |-> l.b,
                                     prev |-> e.mach.modal,
                                     m |-> <<m1.x, m1.y, m1.z, m1.a>>,
                                     t |-> <<e.lastx, e.lasty, e.lastz, e.lasta>>]),
                  !.mach = m1]

PlaneWord(p) == IF p = 17 THEN "G17" ELSE IF p = 18 THEN "G18" ELSE "G19"

\* set_plane that writes the plane with arcs disabled too.
SetPlaneAlways(e, p) ==
    IF Some(p) # e.plane
    THEN Write([e EXCEPT !.plane = Some(p)], Stmt("plane", PlaneWord(p)))
    ELSE e

\* set_plane
SetPlane(e, p) ==
    IF ~e.disable_arcs /\ Some(p) # e.plane
    THEN Write([e EXCEPT !.plane = Some(p)], Stmt("plane", PlaneWord(p)))
    ELSE e

RECURSIVE WriteAll(_, _)
WriteAll(e, ls) ==
    IF ls = <<>> THEN e ELSE WriteAll(Write(e, Head(ls)), Tail(ls))

\* begin: the header (None: the empty string, which selects the default
\* line; else the list of its lines), the units, G91.1 unless arcs are
\* disabled, and "G0 Z<safetyheight>".
Begin(e) ==
    LET e1 == IF e.header = None
              THEN Write(e, Stmt("header", "G17 G90 M3 S3000 G40 G94"))
              ELSE WriteAll(e, [i \in 1..Len(Val(e.header)) |->
                                   Stmt("header", Val(e.header)[i])])
        e2 == Write(e1, Stmt("units", e.units))
        e3 == IF ~e.disable_arcs THEN Write(e2, Stmt("g911", "G91.1")) ELSE e2
    IN  Write(e3, Line("move", "G0", None, None, Some(e.safetyheight), None))

\* move_common
MoveCommon(e, x0, y0, z0, a0, gcode) ==
    LET x  == IF x0 = None THEN e.lastx ELSE x0
        y  == IF y0 = None THEN e.lasty ELSE y0
        z  == IF z0 = None THEN e.lastz ELSE z0
        a  == IF a0 = None THEN e.lasta ELSE a0
        xstring == IF x # e.lastx THEN x ELSE None
        ystring == IF y # e.lasty THEN y ELSE None
        zstring == IF z # e.lastz THEN z ELSE None
        astring == IF a # e.lasta THEN a ELSE None
        e1 == [e EXCEPT !.lastx = x, !.lasty = y, !.lastz = z, !.lasta = a]
        entry == <<e.lastx, e.lasty, e.lastz, e.lasta>>
        e2 == IF gcode # e.lastgcode /\ e.lastgcode = "G0"
              THEN Write(e1, [Line("move", "G0", xstring, ystring, Some(Z10), astring)
                              EXCEPT !.was = e.lastgcode, !.b = Some(entry)])
              ELSE e1
        gcodestring == IF gcode # e.lastgcode THEN gcode ELSE ""
    IN  IF xstring = None /\ ystring = None /\ zstring = None /\ astring = None
        THEN e
        ELSE Write([e2 EXCEPT !.lastgcode = gcode],
                   [Line("move", gcodestring, xstring, ystring, zstring, astring)
                    EXCEPT !.was = e.lastgcode, !.b = Some(entry)])

\* One record of douglas as flush handles it: an arc is written whole and
\* forgets the motion code, a G1 goes through move_common.
FlushMove(e, r) ==
    IF r.cent # None
    THEN [Write(e, [Line("arc", r.move, Some(r.p[1]), Some(r.p[2]), Some(r.p[3]), None)
                    EXCEPT !.c = r.cent])
          EXCEPT !.lastgcode = "None",
                 !.lastx = Some(r.p[1]), !.lasty = Some(r.p[2]), !.lastz = Some(r.p[3])]
    ELSE MoveCommon(e, Some(r.p[1]), Some(r.p[2]), Some(r.p[3]), None, "G1")

RECURSIVE FlushMoves(_, _)
FlushMoves(e, rs) ==
    IF rs = <<>> THEN e ELSE FlushMoves(FlushMove(e, Head(rs)), Tail(rs))

\* flush
Flush(e) ==
    IF e.cuts = <<>> THEN e
    ELSE [FlushMoves(e, Douglas(e.cuts, e.tolerance, e.plane, TRUE)) EXCEPT !.cuts = <<>>]

\* rapid
Rapid(e, x, y, z, a) == MoveCommon(Flush(e), x, y, z, a, "G0")

\* set_feed without its flush: the F word overtakes the queued cuts.
SetFeedNoFlush(e, feed) == Write(e, [Stmt("feed", "F") EXCEPT !.f = Some(feed)])

\* set_feed
SetFeed(e, feed) == Write(Flush(e), [Stmt("feed", "F") EXCEPT !.f = Some(feed)])

\* cut: a point at or above the surface guard is dropped; a missing
\* coordinate is that of the last queued point, or of the emitter.
Cut(e, x0, y0, z) ==
    IF z >= 0 THEN e
    ELSE LET lastx == IF e.cuts # <<>> THEN Some(e.cuts[Len(e.cuts)][1]) ELSE e.lastx
             lasty == IF e.cuts # <<>> THEN Some(e.cuts[Len(e.cuts)][2]) ELSE e.lasty
             x == IF x0 = None THEN lastx ELSE x0
             y == IF y0 = None THEN lasty ELSE y0
         IN  [e EXCEPT !.cuts = Append(@, <<Val(x), Val(y), z>>)]

\* home
Home(e) == Rapid(Flush(e), None, None, Some(e.homeheight), None)

\* safety
Safety(e) == Rapid(Flush(e), None, None, Some(e.safetyheight), None)

\* end that writes M2 whatever the postscript.
EndAlwaysM2(e) == Write(Safety(Flush(e)), Stmt("post", "M2"))

\* end
End(e) ==
    Write(Safety(Flush(e)),
          Stmt("post", IF e.postscript = "" THEN "M2" ELSE e.postscript))

(***************************************************************************)
(* SimpleEntryCut.__call__(conv, i0, j0, points): p is points[0][1], the   *)
(* first point of the span; feed is the plunge feed of the entry cut,      *)
(* convfeed is conv.feed, and e is conv.g.                                 *)
(***************************************************************************)

\* if self.feed: conv.g.set_feed(...)
SetFeedIf(on, e, feed) == IF on THEN SetFeed(e, feed) ELSE e

SimpleEntryCut(feed, e, convfeed, p) ==
    SetFeedIf(feed # 0,
              Rapid(Safety(SetFeedIf(feed # 0, e, feed)), Some(p[1]), Some(p[2]), None, None),
              convfeed)

(***************************************************************************)
(* ArcEntryCut.__call__ for a span of two samples or more, from the radius *)
(* its loop has settled on: p1 is the first sample, axis "rows" where the  *)
(* span runs along X (cx != 0) and "cols" where it runs along Y, and dir is *)
(* cx or cy.  The square root of circ is whole on the values given.        *)
(***************************************************************************)

\* z**.5
Isqrt(n) == CHOOSE k \in 0..n : k * k <= n /\ n < (k + 1) * (k + 1)

\* circ
Circ(r, b) ==
    IF r * r - (r - b) * (r - b) < 0 THEN 0 ELSE Isqrt(r * r - (r - b) * (r - b))

\* <<x1, y1, z1>>: z1 = min(p1[2] + radius, conv.safetyheight), and x1 or y1
\* off p1 by circ(radius, z1 - p1[2]).
ArcStart(p1, axis, dir, radius, safetyheight) ==
    LET z1 == Min2(p1[3] + radius, safetyheight)
    IN  IF axis = "rows" THEN <<p1[1] + dir * Circ(radius, z1 - p1[3]), p1[2], z1>>
        ELSE <<p1[1], p1[2] + dir * Circ(radius, z1 - p1[3]), z1>>

\* rapid(x1, p1[1]); cut(z=z1); flush(); lastgcode = None, to the start s.
ArcApproach(e, s) ==
    [Flush(Cut(Rapid(e, Some(s[1]), Some(s[2]), None, None), None, None, s[3]))
     EXCEPT !.lastgcode = "None"]

\* The G2 or G3 line down to p1, with I or J and K, after which the emitter
\* takes p1 for its position.
ArcLeadIn(e, p1, axis, dir, radius, s) ==
    [Write(e, [Line("arc",
                    IF axis = "rows" THEN (IF dir > 0 THEN "G3" ELSE "G2")
                    ELSE (IF dir > 0 THEN "G2" ELSE "G3"),
                    IF axis = "rows" THEN Some(p1[1]) ELSE None,
                    IF axis = "rows" THEN None ELSE Some(p1[2]),
                    Some(p1[3]), None)
               EXCEPT !.c = Some(<<-dir * Circ(radius, s[3] - p1[3]), p1[3] + radius - s[3]>>)])
     EXCEPT !.lastx = Some(p1[1]), !.lasty = Some(p1[2]), !.lastz = Some(p1[3])]

ArcEntryCut(feed, e, convfeed, p1, axis, dir, radius) ==
    SetFeedIf(feed # 0,
              ArcLeadIn(ArcApproach(Safety(SetFeedIf(feed # 0, e, feed)),
                                    ArcStart(p1, axis, dir, radius, e.safetyheight)),
                        p1, axis, dir, radius,
                        ArcStart(p1, axis, dir, radius, e.safetyheight)),
              convfeed)

(***************************************************************************)
(* The emitter driven through its interface.  One step is one call; out    *)
(* holds the lines of the last call only.  op names the call and, for an   *)
(* entry cut, its point.                                                   *)
(***************************************************************************)

\* The longest cut queue the calls build up.
MaxCuts == 3

\* safetyheight: below and above the Z of the extra rapid of move_common.
SafetyHeights == {5, 15}
HomeHeights == {20}
Tolerances == {Frac(1, 1)}
Feeds == {7}
PlungeFeeds == {0, 4}
Planes == {18}

\* The points handed to cut: three below the surface, in this order on an
\* arc of the plane 18, and one on the surface.
CutPoints == {<<0, 0, -1>>, <<1, 0, -2>>, <<3, 0, -3>>, <<2, 0, 0>>}

\* The depths handed to cut(z=z).
CutDepths == {-2}

\* The arguments <<x, y, z, a>> handed to rapid.
RapidArgs == {<<Some(1), Some(0), None, None>>, <<Some(0), None, None, None>>,
              <<None, Some(1), None, Some(1)>>, <<None, None, Some(-1), None>>}

Op(name) == [name |-> name, p |-> <<>>]

\* The emitter at the start of a call.
Fresh(e) == [e EXCEPT !.out = <<>>]

Running == op # Idle /\ op.name \notin {"init", "end"}

InitEmit ==
    /\ g \in {Gcode(h, 5, t, "G21", None, "", d) :
                 h \in HomeHeights, t \in Tolerances, d \in BOOLEAN}
    /\ op = Op("init")
    /\ dg = Idle /\ cv = Idle /\ hf = Idle /\ wg = Idle

InitSpan ==
    /\ g \in {Gcode(h, s, t, "G21", None, "", d) :
                 h \in HomeHeights, s \in SafetyHeights, t \in Tolerances, d \in BOOLEAN}
    /\ op = Op("init")
    /\ dg = Idle /\ cv = Idle /\ hf = Idle /\ wg = Idle

DoBegin ==
    /\ op # Idle /\ op.name = "init"
    /\ g' = Begin(Fresh(g))
    /\ op' = Op("begin")
    /\ UNCHANGED <<dg, cv, hf, wg>>

DoSetPlane ==
    /\ Running
    /\ \E p \in Planes : g' = SetPlane(Fresh(g), p)
    /\ op' = Op("set_plane")
    /\ UNCHANGED <<dg, cv, hf, wg>>

DoRapid ==
    /\ Running
    /\ \E r \in RapidArgs : g' = Rapid(Fresh(g), r[1], r[2], r[3], r[4])
    /\ op' = Op("rapid")
    /\ UNCHANGED <<dg, cv, hf, wg>>

\* cut(x, y, z) with all three coordinates.
DoCut ==
    /\ Running
    /\ Len(g.cuts) < MaxCuts
    /\ \E p \in CutPoints : g' = Cut(Fresh(g), Some(p[1]), Some(p[2]), p[3])
    /\ op' = Op("cut")
    /\ UNCHANGED <<dg, cv, hf, wg>>

\* cut(z=z): x and y are those of the last queued point or of the emitter.
\* The call is made where it queues one of the points above.
DoCutZ ==
    /\ Running
    /\ Len(g.cuts) < MaxCuts
    /\ g.cuts # <<>> \/ (g.lastx # None /\ g.lasty # None)
    /\ \E z \in CutDepths :
          /\ g' = Cut(Fresh(g), None, None, z)
          /\ g'.cuts[Len(g'.cuts)] \in CutPoints
    /\ op' = Op("cut")
    /\ UNCHANGED <<dg, cv, hf, wg>>

DoSetFeed ==
    /\ Running
    /\ \E f \in Feeds : g' = SetFeed(Fresh(g), f)
    /\ op' = Op("set_feed")
    /\ UNCHANGED <<dg, cv, hf, wg>>

DoSafety ==
    /\ Running
    /\ g' = Safety(Fresh(g))
    /\ op' = Op("safety")
    /\ UNCHANGED <<dg, cv, hf, wg>>

DoHome ==
    /\ Running
    /\ g' = Home(Fresh(g))
    /\ op' = Op("home")
    /\ UNCHANGED <<dg, cv, hf, wg>>

DoFlush ==
    /\ Running
    /\ g' = Flush(Fresh(g))
    /\ op' = Op("flush")
    /\ UNCHANGED <<dg, cv, hf, wg>>

DoEntryCut ==
    /\ Running
    /\ \E p \in CutPoints, pf \in PlungeFeeds, f \in Feeds :
          /\ g' = SimpleEntryCut(pf, Fresh(g), f, p)
          /\ op' = [name |-> "entry_cut", p |-> p]
    /\ UNCHANGED <<dg, cv, hf, wg>>

DoEnd ==
    /\ Running
    /\ g' = End(Fresh(g))
    /\ op' = Op("end")
    /\ UNCHANGED <<dg, cv, hf, wg>>

Next ==
    \/ DoBegin \/ DoSetPlane \/ DoRapid \/ DoCut \/ DoCutZ \/ DoSetFeed
    \/ DoSafety \/ DoHome \/ DoFlush \/ DoEnd

Spec == InitEmit /\ [][Next]_vars

\* The calls of a conversion's span: entry cuts, cuts and safety between
\* begin and end.
NextSpan == DoBegin \/ DoEntryCut \/ DoCut \/ DoSafety \/ DoEnd

SpecSpan == InitSpan /\ [][NextSpan]_vars

\* The first samples of the spans entered by an arc, the radii and the
\* safety heights: first samples deeper than the radius, as deep, and
\* shallower, and starts at and below the safety height.
ArcEntryPoints == {<<1, 1, 0>>, <<1, 1, -1>>, <<1, 1, -4>>, <<1, 1, -6>>}
ArcRadii == {1, 5}
ArcSafetyHeights == {2, 5}

\* circ(radius, z1 - p1[2]) is a whole number.
WholeCirc(p1, radius, safetyheight) ==
    LET b == Min2(p1[3] + radius, safetyheight) - p1[3]
    IN  Circ(radius, b) * Circ(radius, b) = radius * radius - (radius - b) * (radius - b)

InitArc ==
    /\ g \in {Gcode(h, s, t, "G21", None, "", FALSE) :
                 h \in HomeHeights, s \in ArcSafetyHeights, t \in Tolerances}
    /\ op = Op("init")
    /\ dg = Idle /\ cv = Idle /\ hf = Idle /\ wg = Idle

\* The entry cut of a span; at is where the lines written up to the G2 or
\* G3 line have taken the machine.
DoArcEntryCut ==
    /\ Running
    /\ \E p1 \in ArcEntryPoints, axis \in {"rows", "cols"}, dir \in {-1, 1},
          radius \in ArcRadii, pf \in PlungeFeeds, f \in Feeds :
          /\ WholeCirc(p1, radius, g.safetyheight)
          /\ g' = ArcEntryCut(pf, Fresh(g), f, p1, axis, dir, radius)
          /\ op' = [name |-> "arc_entry_cut", p |-> p1, axis |-> axis, dir |-> dir,
                    radius |-> radius,
                    at |-> ArcApproach(Safety(SetFeedIf(pf # 0, Fresh(g), pf)),
                                       ArcStart(p1, axis, dir, radius, g.safetyheight)).mach]
    /\ UNCHANGED <<dg, cv, hf, wg>>

NextArc == DoBegin \/ DoArcEntryCut \/ DoSafety

SpecArc == InitArc /\ [][NextArc]_vars

(***************************************************************************)
(* douglas called directly on a queue.  A point of the queue carries its   *)
(* place in the queue as a fourth component, which douglas does not read   *)
(* and hands through to its result.                                        *)
(***************************************************************************)

\* The longest queue handed to douglas.
MaxLen == 3

QueueXs == 0..3
QueueZs == {-3, -2, -1}
QueueTolerances == {Frac(0, 1), Frac(1, 1), Frac(1, 4)}
QueuePlanes == {None, Some(17), Some(18)}

\* The queues of length n over the points of the plane y = 0.
QueuesOfLen(n) ==
    {[k \in 1..n |-> <<xz[k][1], 0, xz[k][2], k>>] : xz \in [1..n -> QueueXs \X QueueZs]}

InitDouglas ==
    /\ \E n \in 1..MaxLen, tol \in QueueTolerances, plane \in QueuePlanes :
          \E st \in QueuesOfLen(n) :
             dg = [st |-> st, tolerance |-> tol, plane |-> plane, done |-> FALSE, out |-> <<>>]
    /\ g = Idle /\ op = Idle /\ cv = Idle /\ hf = Idle /\ wg = Idle

CallDouglas ==
    /\ dg # Idle /\ ~dg.done
    /\ dg' = [dg EXCEPT !.done = TRUE,
                        !.out = Douglas(dg.st, dg.tolerance, dg.plane, TRUE)]
    /\ UNCHANGED <<g, op, cv, hf, wg>>

NextDouglas == CallDouglas

SpecDouglas == InitDouglas /\ [][NextDouglas]_vars

(***************************************************************************)
(* Image_Matrix.  A matrix is a record: width and height are the numbers   *)
(* of rows and columns, matrix maps <<i, j>>, counted from 0, to the cell  *)
(* of row i and column j, and the value of a cell is matrix / den.  The    *)
(* cells added by pad_w_zeros are not stored: t_offset is their width and  *)
(* a padded index outside the stored cells reads as None, -1e1000000.      *)
(* An image is a record [size, px]: size is <<columns, rows>> as PIL       *)
(* gives it and px the rows of pixels.                                     *)
(***************************************************************************)

Cells(w, h) == (0..(w - 1)) \X (0..(h - 1))

SetMin(S) == CHOOSE v \in S : \A u \in S : v <= u
SetMax(S) == CHOOSE v \in S : \A u \in S : v >= u

\* im.getpixel((j, i))
GetPixel(im, j, i) == im.px[i + 1][j + 1]

\* FromImage, pil_format, a grayscale image: him, wim = im.size.
FromImage(im) ==
    LET him == im.size[1]
        wim == im.size[2]
    IN  [width |-> wim, height |-> him, t_offset |-> 0, den |-> 1,
         matrix |-> [c \in Cells(wim, him) |-> GetPixel(im, c[2], c[1])],
         matrix_skip |-> [c \in Cells(wim, him) |-> FALSE]]

\* min() and max(): over the cells inside the padding; times den.
MatMin(M) == SetMin({M.matrix[c] : c \in Cells(M.width, M.height)})
MatMax(M) == SetMax({M.matrix[c] : c \in Cells(M.width, M.height)})

\* mult(n / d), d > 0
MatMult(M, n, d) ==
    [M EXCEPT !.matrix = [c \in DOMAIN M.matrix |-> M.matrix[c] * n], !.den = M.den * d]

\* minus(val)
MatMinus(M, val) ==
    [M EXCEPT !.matrix = [c \in DOMAIN M.matrix |-> M.matrix[c] - val * M.den]]

\* A tool shape: width rows and columns, a cell is None where
\* make_tool_shape stores 1e100000.
ToolCellR2(c, hdia) == (c[1] - hdia) * (c[1] - hdia) + (c[2] - hdia) * (c[2] - hdia)

(***************************************************************************)
(* make_tool_shape for rad = 1: a tool of 3 by 3 cells.  f is the profile  *)
(* <<f(0), f(resp), f(resp * sqrt(2))>> in whole units, nondecreasing, and *)
(* reach tells how far wrad goes: the cells with r < wrad are the centre   *)
(* (reach 1), the centre and its four neighbours (reach 2) or all nine     *)
(* (reach 3).                                                              *)
(***************************************************************************)
MakeToolShape(f, reach, rough_offset) ==
    LET dia    == 3
        hdia   == 1
        inside == {c \in Cells(dia, dia) : ToolCellR2(c, hdia) < reach}
        min    == SetMin({f[ToolCellR2(c, hdia) + 1] : c \in inside})
    IN  [width |-> dia,
         matrix |-> [c \in Cells(dia, dia) |->
                        IF c \in inside
                        THEN Some(f[ToolCellR2(c, hdia) + 1] - (min + rough_offset))
                        ELSE None]]

\* endmill, ball_tool and vee_common as profiles.
Endmill == <<0, 0, 0>>
BallTool == <<0, 1, 2>>
VeeCommon == <<0, 2, 3>>

\* pad_w_zeros
PadWZeros(M, tool) == [M EXCEPT !.t_offset = (tool.width - 1) \div 2]

\* The height field of WriteGCode: the matrix handed to the Converter.
HeightField(im, normalize, invert, z_cut, tool) ==
    LET MAT   == FromImage(im)
        depth == -z_cut
        a     == MatMin(MAT)
        b     == MatMax(MAT)
        norm  == IF normalize
                 THEN IF a # b THEN MatMult(MatMinus(MAT, a), 1, b - a) ELSE MAT
                 ELSE MatMult(MAT, 1, 255)
        deep  == MatMult(norm, depth, 1)
        inv   == IF invert THEN MatMult(deep, -1, 1) ELSE MatMinus(deep, depth)
    IN  PadWZeros(inv, tool)

(***************************************************************************)
(* The height field on its own.                                            *)
(***************************************************************************)

\* The largest side of a pixel buffer.
MaxSide == 2

GrayLevels == {0, 85, 170, 255}
ZCuts == {3, 1, -3}

\* The square pixel buffers of side n; WriteGCode divides by the number of
\* rows less one, so that an image has two rows at least.
Images(n) == {[size |-> <<n, n>>, px |-> px] : px \in [1..n -> [1..n -> GrayLevels]]}

InitField ==
    /\ \E n \in 2..MaxSide, normalize \in BOOLEAN, invert \in BOOLEAN, z_cut \in ZCuts :
          \E im \in Images(n) :
             hf = [im |-> im, normalize |-> normalize, invert |-> invert,
                   z_cut |-> z_cut, MAT |-> None]
    /\ g = Idle /\ op = Idle /\ dg = Idle /\ cv = Idle /\ wg = Idle

BuildField ==
    /\ hf # Idle /\ hf.MAT = None
    /\ hf' = [hf EXCEPT !.MAT = Some(HeightField(hf.im, hf.normalize, hf.invert, hf.z_cut,
                                                 MakeToolShape(BallTool, 2, 0)))]
    /\ UNCHANGED <<g, op, dg, cv, wg>>

NextField == BuildField

SpecField == InitField /\ [][NextField]_vars

(***************************************************************************)
(* Scan converters.  A converter is a record [kind, st]; a call returns    *)
(* the converter after the call and the spans it yields, each a record     *)
(* [flag, points].                                                         *)
(***************************************************************************)

Reverse(s) == [k \in 1..Len(s) |-> s[Len(s) + 1 - k]]

\* convert_makers[conv_index]()
ScanConverter(kind) == [kind |-> kind, st |-> 0]

\* Convert_Scan_Alternating with the first call forward.
ConvertScanForwardFirst(conv, primary, items) ==
    LET st == conv.st + 1
    IN  [conv  |-> [conv EXCEPT !.st = st],
         spans |-> <<[flag |-> st = 1,
                      points |-> IF st % 2 = 0 THEN Reverse(items) ELSE items]>>]

\* Convert_Scan_Alternating.__call__
ConvertScanAlternating(conv, primary, items) ==
    LET st == conv.st + 1
    IN  [conv  |-> [conv EXCEPT !.st = st],
         spans |-> <<[flag |-> st = 1,
                      points |-> IF st % 2 = 1 THEN Reverse(items) ELSE items]>>]

\* Convert_Scan_Increasing.__call__
ConvertScanIncreasing(conv, primary, items) ==
    [conv |-> conv, spans |-> <<[flag |-> TRUE, points |-> items]>>]

\* Convert_Scan_Decreasing.__call__
ConvertScanDecreasing(conv, primary, items) ==
    [conv |-> conv, spans |-> <<[flag |-> TRUE, points |-> Reverse(items)]>>]

\* convert_scan(primary, scan)
ConvertScan(conv, primary, items) ==
    IF conv.kind = "Alternating" THEN ConvertScanAlternating(conv, primary, items)
    ELSE IF conv.kind = "Positive" THEN ConvertScanIncreasing(conv, primary, items)
    ELSE ConvertScanDecreasing(conv, primary, items)

\* reset()
ResetScan(conv) == IF conv.kind = "Alternating" THEN [conv EXCEPT !.st = 0] ELSE conv

(***************************************************************************)
(* The Converter.  A converter is a record of the object's fields, with g  *)
(* its emitter; convert_rows and convert_cols are None or a scan           *)
(* converter.  log is the record of the scans of the pass: one entry for   *)
(* each line milled, with its axis, its index j, the converter's counter   *)
(* after the call, the span's flag and samples, and the points the         *)
(* emitter queued for it.  A sample is <<i, <<x, y, z>>>>; the slopes of   *)
(* milldata, which the three converters above do not read, are left out.   *)
(***************************************************************************)

\* The matrix at a padded index, None in the padding.
PaddedAt(M, r, c) ==
    IF <<r - M.t_offset, c - M.t_offset>> \in Cells(M.width, M.height)
    THEN Some(M.matrix[<<r - M.t_offset, c - M.t_offset>>])
    ELSE None

\* The differences m1 - tool.matrix of height_calc that are not -inf.
ToolDrops(M, x, y, tool) ==
    {Val(PaddedAt(M, y + c[1], x + c[2])) - Val(tool.matrix[c]) :
        c \in {d \in Cells(tool.width, tool.width) :
                  PaddedAt(M, y + d[1], x + d[2]) # None /\ tool.matrix[d] # None}}

\* The cell of the matrix under the tool's centre in height_calc(x, y).
CentreCell(x, y) == <<y, x>>

\* height_calc with the tool's footprint ignored: the height of the pixel
\* under the tool's centre.
HeightAtCentre(M, x, y, tool) == M.matrix[CentreCell(x, y)]

\* height_calc
HeightCalc(M, x, y, tool) == SetMax(ToolDrops(M, x, y, tool))

\* get_z; the cache holds values of height_calc.
GetZ(c, x, y) == Min2(0, Max2(c.rd, HeightCalc(c.image, x, y, c.tool_shape)))

RECURSIVE Frange(_, _, _)
\* frange
Frange(start, stop, step) ==
    IF start < stop THEN <<start>> \o Frange(start + step, stop, step) ELSE <<>>

InSeq(v, s) == \E k \in 1..Len(s) : s[k] = v

\* jrange of mill_rows and of mill_cols before it is reversed.
JRange(n, splitpixels, pixel_offset, pixelstep) ==
    LET r0 == Frange(splitpixels + pixel_offset, n - pixel_offset, pixelstep)
        r1 == IF r0[1] # pixel_offset THEN <<pixel_offset>> \o r0 ELSE r0
    IN  IF ~InSeq(n - 1 - pixel_offset, r1) THEN Append(r1, n - 1 - pixel_offset) ELSE r1

\* The scan of row j in mill_rows.
ScanRow(c, j) ==
    [k \in 1..(c.h1 - 2 * c.pixel_offset) |->
        LET i == c.pixel_offset + k - 1
        IN  <<i, <<i * c.pixelsize + c.xoffset,
                   (c.w1 - j - 1) * c.pixelsize + c.yoffset,
                   GetZ(c, i, j)>>>>]

\* The index at which mill_cols reads matrix_skip for column j and row i.
SkipIndex(j, i) == <<j, i>>

\* The scan of column j in mill_cols.
ScanCol(c, j) ==
    LET all == [k \in 1..(c.w1 - 2 * c.pixel_offset) |->
                   LET i == c.pixel_offset + k - 1
                   IN  <<i, <<j * c.pixelsize + c.xoffset,
                              (c.w1 - i - 1) * c.pixelsize + c.yoffset,
                              GetZ(c, j, i)>>>>]
        Kept(s) == ~c.image.matrix_skip[SkipIndex(j, s[1])]
    IN  SelectSeq(all, Kept)

(***************************************************************************)
(* The Converter never reads its emitter, it only calls it.  The scans     *)
(* below append the calls they make on self.g to the converter's calls, in *)
(* the order of the code, and Play hands them to the emitter one after the *)
(* other.  A call is a method's name with its arguments; "entry_cut" is    *)
(* the call of self.entry_cut, which makes its own calls on conv.g (the    *)
(* simple entry cut only: the arc entry cut is not followed), and          *)
(* "scanned" is no call: it marks the end of a span's cuts, where Play     *)
(* notes the scan in log, with the points the emitter holds queued and the *)
(* plane it is in.                                                         *)
(* STOP_CALC is a global that the code reads and never writes: whoever     *)
(* sets it does so between two sample iterations, and left says after how  *)
(* many iterations (None: never).  stop is None until a mill function has  *)
(* returned on the flag, then the emitter's queue and the number of lines  *)
(* written in the step at the first such return.                           *)
(***************************************************************************)
GCall(m, a) == [m |-> m, a |-> a]

CallG(c, m, a) == [c EXCEPT !.calls = Append(@, GCall(m, a))]

\* for p in points: self.g.cut(*p[1])
CutAll(c, points) ==
    [c EXCEPT !.calls = @ \o [k \in 1..Len(points) |-> GCall("cut", points[k][2])]]

RECURSIVE MillSpans(_, _, _, _, _, _)
\* for flag, points in convert_scan(primary, scan): entry cut and cuts.
MillSpans(c, spans, border_flag, axis, j, conv) ==
    IF spans = <<>> THEN c
    ELSE LET span == Head(spans)
             c1   == IF span.flag \/ border_flag
                     THEN CallG(c, "entry_cut", <<c.entry_cut, c.feed, span.points[1][2]>>)
                     ELSE c
             c2   == CallG(CutAll(c1, span.points), "scanned",
                           [axis |-> axis, j |-> j, call |-> conv.st, kind |-> conv.kind,
                            flag |-> span.flag, border |-> border_flag,
                            points |-> span.points, cuts |-> <<>>, plane |-> None])
         IN  MillSpans(c2, Tail(spans), border_flag, axis, j, conv)

\* The body of the loop over jrange; which is "convert_rows" or
\* "convert_cols", the converter object handed to mill_rows or mill_cols.
MillLine(c, which, primary, border_flag, axis, j) ==
    LET r == ConvertScan(Val(c[which]), primary,
                         IF axis = "rows" THEN ScanRow(c, j) ELSE ScanCol(c, j))
    IN  CallG(MillSpans([c EXCEPT ![which] = Some(r.conv)], r.spans, border_flag, axis, j,
                        r.conv),
              "flush", <<>>)

\* The sample iterations of a line: irange, before any sample is skipped.
SamplesOf(c, axis) ==
    (IF axis = "rows" THEN c.h1 ELSE c.w1) - 2 * c.pixel_offset

\* if STOP_CALC, never true: the flag is not looked at.
StopNeverSeen(c, axis) == FALSE

\* if STOP_CALC, at one of the sample iterations of the next line: left is
\* the number of iterations that still find the flag unset.
StopSeen(c, axis) == c.left # None /\ Val(c.left) < SamplesOf(c, axis)

\* The iterations of a line have found the flag unset.
Checked(c, axis) ==
    IF c.left = None THEN c ELSE [c EXCEPT !.left = Some(Val(@) - SamplesOf(c, axis))]

RECURSIVE MillLines(_, _, _, _, _, _)
\* for j in jrange; on the flag the function returns: "stopped" is no call
\* but marks the return.
MillLines(c, which, primary, border_flag, axis, js) ==
    IF js = <<>> THEN c
    ELSE IF StopSeen(c, axis) THEN CallG([c EXCEPT !.left = Some(0)], "stopped", <<>>)
    ELSE MillLines(MillLine(Checked(c, axis), which, primary, border_flag, axis, Head(js)),
                   which, primary, border_flag, axis, Tail(js))

\* The call of mill_rows or mill_cols itself: no call on the emitter, Play
\* notes it in passes.
MillG(c, axis, primary, border_flag) ==
    CallG(c, "mill", [axis |-> axis, primary |-> primary, border |-> border_flag])

\* mill_rows
MillRows(c, which, primary, border_flag) ==
    MillLines(MillG(c, "rows", primary, border_flag), which, primary, border_flag, "rows",
              JRange(c.w1, c.splitpixels, c.pixel_offset, c.pixelstep))

\* mill_cols
MillCols(c, which, primary, border_flag) ==
    MillLines(MillG(c, "cols", primary, border_flag), which, primary, border_flag, "cols",
              Reverse(JRange(c.h1, c.splitpixels, c.pixel_offset, c.pixelstep)))

\* set_plane(18) whatever the axis.
SetPlaneG18(c, p) == CallG(c, "set_plane", <<18>>)

SetPlaneG(c, p) == CallG(c, "set_plane", <<p>>)
SafetyG(c) == CallG(c, "safety", <<>>)

\* convert_cols.reset() and convert_rows.reset()
ResetScans(c) ==
    [c EXCEPT !.convert_cols = IF @ # None THEN Some(ResetScan(Val(@))) ELSE @,
              !.convert_rows = IF @ # None THEN Some(ResetScan(Val(@))) ELSE @]

\* one_pass, the scans: columns first, rows, columns last.
MainScans(c) ==
    LET rows == c.convert_rows # None
        cols == c.convert_cols # None
        c1   == CallG(c, "set_feed", <<c.feed>>)
        c2   == IF cols /\ c.cols_first_flag
                THEN LET m == MillCols(SetPlaneG(c1, 19), "convert_cols", TRUE, FALSE)
                     IN  IF rows THEN SafetyG(m) ELSE m
                ELSE c1
        c3   == IF rows
                THEN MillRows(SetPlaneG(c2, 18), "convert_rows", ~c.cols_first_flag, FALSE)
                ELSE c2
        c4   == IF cols /\ ~c.cols_first_flag
                THEN LET p == SetPlaneG(c3, 19)
                     IN  MillCols(IF rows THEN SafetyG(p) ELSE p, "convert_cols", ~rows, FALSE)
                ELSE c3
    IN  SafetyG(c4)

\* one_pass, the border: the lines at the two edges of the other axis.
BorderScans(c) ==
    LET rows == c.convert_rows # None
        cols == c.convert_cols # None
        c7   == IF c.border = 1 /\ ~rows /\ cols
                THEN SafetyG(MillRows(SetPlaneG(c, 18), "convert_cols", TRUE, TRUE))
                ELSE c
    IN  IF c.border = 1 /\ ~cols /\ rows
        THEN SafetyG(MillCols(SetPlaneG(c7, 19), "convert_rows", TRUE, TRUE))
        ELSE c7

\* What the emitter does on a call.
Call(e, k) ==
    CASE k.m = "set_feed"  -> SetFeed(e, k.a[1])
      [] k.m = "set_plane" -> SetPlane(e, k.a[1])
      [] k.m = "safety"    -> Safety(e)
      [] k.m = "entry_cut" /\ k.a[1].kind = "simple"
                           -> SimpleEntryCut(k.a[1].feed, e, k.a[2], k.a[3])
      [] k.m = "cut"       -> Cut(e, Some(k.a[1]), Some(k.a[2]), k.a[3])
      [] k.m = "flush"     -> Flush(e)

\* The calls that hand a queue to douglas: all but cut and set_plane.  The
\* queue flushed holds the cuts of the scan noted last; flushes keeps its
\* axis with the emitter's plane at the flush.
Flushing(c, k) == c.g.cuts # <<>> /\ k.m \notin {"cut", "set_plane"}

Noted(c, k) ==
    IF Flushing(c, k)
    THEN [c EXCEPT !.flushes = Append(@, [axis |-> c.log[Len(c.log)].axis,
                                          border |-> c.log[Len(c.log)].border,
                                          plane |-> c.g.plane])]
    ELSE c

\* One call played: a call on the emitter, or a note taken.
Play1(c, k) ==
    IF k.m = "scanned"
    THEN [c EXCEPT !.log = Append(@, [k.a EXCEPT !.cuts = c.g.cuts, !.plane = c.g.plane])]
    ELSE IF k.m = "stopped"
    THEN [c EXCEPT !.stop = IF @ = None
                            THEN Some([cuts |-> c.g.cuts, lines |-> Len(c.g.out)])
                            ELSE @]
    ELSE IF k.m = "mill"
    THEN [c EXCEPT !.passes = Append(@, [axis |-> k.a.axis, primary |-> k.a.primary,
                                         border |-> k.a.border, at |-> c.g.mach,
                                         cuts |-> c.g.cuts, lines |-> Len(c.g.out)])]
    ELSE [Noted(c, k) EXCEPT !.g = Call(c.g, k)]

RECURSIVE Play(_)
\* The calls still to make are made in their order.
Play(c) ==
    IF c.calls = <<>> THEN c
    ELSE Play([Play1(c, Head(c.calls)) EXCEPT !.calls = Tail(c.calls)])

\* The converter when its calls have been made.
Played(c) == Play(c)

\* one_pass
OnePass(c) ==
    Played(SafetyG(ResetScans(
        [BorderScans([ResetScans(MainScans(c)) EXCEPT !.pixelstep = Max2(c.w1, c.h1) + 1])
         EXCEPT !.pixelstep = c.pixelstep])))

\* Converter.__init__, with pixelsize 1, no offsets, no split step and no
\* edge offset; g is set by convert.
Converter(image, units, tool_shape, pixelstep, safetyheight, tolerance, feed, convert_rows, convert_cols, cols_first_flag, border, entry_cut, roughing_delta, roughing_feed, header, postscript, disable_arcs) ==
    [image |-> image, units |-> units, tool_shape |-> tool_shape, pixelsize |-> 1,
     pixelstep |-> pixelstep, header |-> header, postscript |-> postscript,
     splitpixels |-> 0, pixel_offset |-> 0, xoffset |-> 0, yoffset |-> 0,
     safetyheight |-> safetyheight, tolerance |-> tolerance, base_feed |-> feed,
     convert_rows |-> convert_rows, convert_cols |-> convert_cols,
     cols_first_flag |-> cols_first_flag, border |-> border, entry_cut |-> entry_cut,
     roughing_delta |-> roughing_delta, roughing_feed |-> roughing_feed,
     disable_arcs |-> disable_arcs,
     w1 |-> image.width, h1 |-> image.height,
     feed |-> None, rd |-> None, g |-> None, calls |-> <<>>, log |-> <<>>,
     left |-> None, stop |-> None, passes |-> <<>>, flushes |-> <<>>, split |-> None]

\* Converter.__init__, the split step, for a splitstep s.n / s.d that is 0
\* or above epsilon: pixelstep = int(floor(pixelstep * splitstep * 2)).
SplitPixelstep(pixelstep, s) ==
    IF s.n > 0 THEN (pixelstep * s.n * 2) \div s.d ELSE pixelstep

\* splitpixels = int(floor(pixelstep * splitstep)), of the pixelstep above.
SplitPixels(pixelstep, s) ==
    IF s.n > 0 THEN (SplitPixelstep(pixelstep, s) * s.n) \div s.d ELSE 0

\* The Converter built with the split step s and an edge offset of
\* edge_offset pixels; split keeps the arguments.
SplitConverter(c, s, edge_offset) ==
    [c EXCEPT !.pixelstep = SplitPixelstep(c.pixelstep, s),
              !.splitpixels = SplitPixels(c.pixelstep, s),
              !.pixel_offset = edge_offset,
              !.split = Some([pixelstep |-> c.pixelstep, splitstep |-> s])]

(***************************************************************************)
(* What raises.  Converter.__init__ divides w1 or h1 by the pixelstep of    *)
(* the split step for its count of lines: ZeroDivisionError when that is   *)
(* 0, with rows or columns to scan.  In mill_rows and mill_cols jrange[0]  *)
(* raises IndexError on an empty list, and matrix_skip[j, i] raises        *)
(* IndexError outside the mask.  Where none of these happens the scans     *)
(* above are defined.                                                      *)
(***************************************************************************)

\* ceil(self.w1 / pixelstep), ceil(self.h1 / pixelstep)
InitRaises(c) ==
    c.pixelstep = 0 /\ (c.convert_rows # None \/ c.convert_cols # None)

\* jrange[0] of the empty list.
JRangeRaises(n, splitpixels, pixel_offset, pixelstep) ==
    ~(splitpixels + pixel_offset < n - pixel_offset)

\* self.image.matrix_skip[j, i] for an index of jrange and one of irange
\* outside the mask.
SkipRaises(c) ==
    \E k \in 1..Len(JRange(c.h1, c.splitpixels, c.pixel_offset, c.pixelstep)),
       i \in c.pixel_offset..(c.w1 - c.pixel_offset - 1) :
       SkipIndex(JRange(c.h1, c.splitpixels, c.pixel_offset, c.pixelstep)[k], i)
           \notin DOMAIN c.image.matrix_skip

\* The lines of the axis: w1 for mill_rows, h1 for mill_cols.
LinesOf(c, axis) == IF axis = "rows" THEN c.w1 ELSE c.h1

\* "IndexError" or "ok" for mill_rows or mill_cols run at pixelstep.
MillOutcome(c, axis, pixelstep) ==
    IF JRangeRaises(LinesOf(c, axis), c.splitpixels, c.pixel_offset, pixelstep)
    THEN "IndexError"
    ELSE IF axis = "cols" /\ SkipRaises([c EXCEPT !.pixelstep = pixelstep])
    THEN "IndexError"
    ELSE "ok"

\* The calls of mill_rows and mill_cols of one_pass, in its order, each with
\* the pixelstep it runs at.
MillCalls(c) ==
    LET rows == c.convert_rows # None
        cols == c.convert_cols # None
        col  == <<<<"cols", c.pixelstep>>>>
        row  == <<<<"rows", c.pixelstep>>>>
        big  == Max2(c.w1, c.h1) + 1
    IN  (IF cols /\ c.cols_first_flag THEN col ELSE <<>>)
        \o (IF rows THEN row ELSE <<>>)
        \o (IF cols /\ ~c.cols_first_flag THEN col ELSE <<>>)
        \o (IF c.border = 1 /\ ~rows /\ cols THEN <<<<"rows", big>>>> ELSE <<>>)
        \o (IF c.border = 1 /\ ~cols /\ rows THEN <<<<"cols", big>>>> ELSE <<>>)

RECURSIVE FirstOutcome(_, _)
FirstOutcome(c, calls) ==
    IF calls = <<>> THEN "ok"
    ELSE IF MillOutcome(c, Head(calls)[1], Head(calls)[2]) # "ok"
    THEN MillOutcome(c, Head(calls)[1], Head(calls)[2])
    ELSE FirstOutcome(c, Tail(calls))

\* What one_pass comes to.
PassOutcome(c) == FirstOutcome(c, MillCalls(c))

\* The matrix in whole units of length.
Whole(M) == \A c \in DOMAIN M.matrix : M.matrix[c] % M.den = 0
InUnits(M) == [M EXCEPT !.matrix = [c \in DOMAIN M.matrix |-> M.matrix[c] \div M.den],
                        !.den = 1]

\* The profile of a tool kind: "Flat", "V", otherwise the ball.
ToolProfile(flat, vee) ==
    IF flat THEN Endmill ELSE IF vee THEN VeeCommon ELSE BallTool

\* conv_index: an unknown direction is "Alternating".
ScanKind(converter) ==
    IF converter \in {"Positive", "Negative", "Alternating"} THEN converter
    ELSE "Alternating"

(***************************************************************************)
(* WriteGCode from the loaded image to the Converter it builds, for the    *)
(* configuration cfg: a pixel is 1 unit wide, the origin is at the bottom  *)
(* left, top cutting is on, there is no lace bounding and no split step,   *)
(* and the arc entry cut is named but not followed.  dia and ROUGH_DIA are *)
(* the tool's reach (see MakeToolShape), stepover is in pixels.            *)
(***************************************************************************)

\* The comment lines of the header: the title, the settings, the rule.  The
\* lines "(dmap2gcode_set ...)" are given as one line for all of them.
HeaderComments ==
    <<"( Code generated by dmap2gcode widget )", "( by Scorch - 2014 )",
      "(Settings used in dmap2gcode when this file was created)", "(====)",
      "(dmap2gcode_set ...)", "(====)">>

\* gpre.split('|') on the preambles drawn.
SplitBars(t) ==
    IF t = "G90|G17" THEN <<"G90", "G17">> ELSE <<t>>

\* gpost.replace('|', '\n') on the postscripts drawn: one text, written by
\* one write.
ReplaceBars(t) ==
    IF t = "M5|M30" THEN "M5\nM30" ELSE t

\* header of WriteGCode: the comments unless no_comments, or in any case
\* for a configuration file; then the lines of gpre.
Header(cfg, config_file) ==
    (IF ~cfg.no_comments \/ config_file THEN HeaderComments ELSE <<>>)
    \o (IF config_file THEN <<>> ELSE SplitBars(cfg.gpre))

\* units, with G21 for inches too.
UnitsWordMetric(units) == "G21"

\* units
UnitsWord(units) == IF units = "in" THEN "G20" ELSE "G21"

\* Entry_cut: ArcEntryCut(plunge_feed, .125) or SimpleEntryCut(plunge_feed).
EntryCut(plungetype, disable_arcs, plunge_feed) ==
    IF plungetype = "arc" /\ ~disable_arcs
    THEN [kind |-> "arc", feed |-> plunge_feed]
    ELSE [kind |-> "simple", feed |-> plunge_feed]

WriteGCodeConverter(cfg, rough_flag) ==
    LET rough        == rough_flag # 0
        cutperim     == IF rough THEN cfg.ROUGH_CUTPERIM ELSE cfg.cutperim
        rough_depth  == IF rough THEN cfg.ROUGH_DEPTH_PP ELSE 0
        rough_offset == IF rough THEN cfg.ROUGH_OFFSET ELSE 0
        feed_rate    == IF rough THEN cfg.ROUGH_R_FEED ELSE cfg.f_feed
        plunge_feed  == IF rough THEN cfg.ROUGH_P_FEED ELSE cfg.p_feed
        step         == Max2(1, IF rough THEN cfg.ROUGH_STEPOVER ELSE cfg.stepover)
        TOOL         == IF rough
                        THEN MakeToolShape(ToolProfile(cfg.ROUGH_TOOL = "Flat", cfg.tool = "V"),
                                           cfg.ROUGH_DIA, rough_offset)
                        ELSE MakeToolShape(ToolProfile(cfg.tool = "Flat", cfg.tool = "V"),
                                           cfg.dia, 0)
        scanpat      == IF rough THEN cfg.ROUGH_SCANPAT ELSE cfg.scanpat
        converter    == IF rough THEN cfg.ROUGH_SCANDIR ELSE cfg.scandir
        convert_rows == IF scanpat # "Columns" THEN Some(ScanConverter(ScanKind(converter)))
                        ELSE None
        convert_cols == IF scanpat # "Rows" THEN Some(ScanConverter(ScanKind(converter)))
                        ELSE None
        MAT          == HeightField(cfg.im, cfg.normalize, cfg.invert, cfg.z_cut, TOOL)
    IN  Converter(InUnits(MAT), UnitsWord(cfg.units), TOOL, step, cfg.z_safe, cfg.tolerance,
                  feed_rate, convert_rows, convert_cols, scanpat = "C then R", cutperim,
                  EntryCut(cfg.plungetype, cfg.disable_arcs, plunge_feed),
                  rough_depth, cfg.ROUGH_R_FEED, Header(cfg, FALSE), ReplaceBars(cfg.gpost),
                  cfg.disable_arcs)

(***************************************************************************)
(* convert().  A conversion is a record: c is the Converter, pc the place  *)
(* in convert, r and m its locals, rds the values of rd of the passes run  *)
(* so far, output_gcode the lines written so far, and cfg the              *)
(* configuration it was started with; run tells the first call of          *)
(* WriteGCode from the second.  One step is begin with the first           *)
(* retract, one pass, or end; out and log of the Converter hold the lines  *)
(* and the scans of the last step.                                         *)
(***************************************************************************)

\* The passes a conversion is followed through.
MaxPasses == 4

\* while r > m
MoreLayers(r, m) == r > m

\* The converter before a step: no lines and no scans of an earlier step.
Cleared(c) ==
    [c EXCEPT !.log = <<>>, !.passes = <<>>, !.flushes = <<>>, !.g = Fresh(c.g),
              !.stop = IF @ = None THEN None ELSE Some([cuts |-> <<>>, lines |-> 0])]

\* target: the lines of a step are appended to output_gcode.
Target(v) == [v EXCEPT !.output_gcode = @ \o v.c.g.out]

\* convert() up to the passes: the emitter, begin(), safety(), and the
\* locals of the branch taken.  homeheight, left at its default by convert
\* and read by home() only, which convert never calls, is given as 20.
ConvertBegin(v) ==
    LET roughing == v.c.roughing_delta # 0
    IN  Target([v EXCEPT
                  !.c = [v.c EXCEPT
                           !.g = Safety(Begin(Gcode(20, v.c.safetyheight, v.c.tolerance,
                                                    v.c.units, Some(v.c.header), v.c.postscript,
                                                    v.c.disable_arcs))),
                           !.feed = IF roughing THEN v.c.roughing_feed ELSE v.c.base_feed,
                           !.rd = IF roughing THEN None ELSE MatMin(v.c.image)],
                  !.r = IF roughing THEN -v.c.roughing_delta ELSE None,
                  !.m = IF roughing THEN MatMin(v.c.image) ELSE None,
                  !.pc = IF roughing THEN "layers" ELSE "finish"])

\* The body of the while loop.
LayerPass(v) ==
    Target([v EXCEPT !.c = OnePass([Cleared(v.c) EXCEPT !.rd = v.r]),
                     !.r = v.r - v.c.roughing_delta,
                     !.rds = Append(@, v.r)])

\* if r < m + epsilon, after the loop: r and m are whole units.
FloorPass(v) ==
    IF v.r <= v.m
    THEN Target([v EXCEPT !.c = OnePass([Cleared(v.c) EXCEPT !.rd = v.m]),
                          !.rds = Append(@, v.m), !.pc = "end"])
    ELSE [v EXCEPT !.c = Cleared(v.c), !.pc = "end"]

\* The single pass without roughing.
FinishPass(v) ==
    Target([v EXCEPT !.c = OnePass(Cleared(v.c)), !.rds = Append(@, v.c.rd), !.pc = "end"])

\* g.end(); return output_gcode
ConvertEnd(v) ==
    Target([v EXCEPT !.c = [Cleared(v.c) EXCEPT !.g = End(Fresh(v.c.g))], !.pc = "done"])

ConvImages ==
    {[size |-> <<Len(px[1]), Len(px)>>, px |-> px] :
        px \in {<<<<255, 255>>, <<255, 255>>>>,
                <<<<0, 85>>, <<255, 255>>>>,
                <<<<255, 0>>, <<85, 0>>>>,
                <<<<85, 85>>, <<0, 85>>>>,
                <<<<0, 85, 255>>, <<255, 0, 85>>, <<85, 255, 255>>>>,
                <<<<255, 255, 255>>, <<255, 0, 255>>, <<255, 255, 255>>>>,
                <<<<0, 0, 0>>, <<85, 85, 85>>, <<255, 255, 255>>>>}}

ConvZCuts == {3, -3}
ScanDirs == {"Alternating", "Positive", "Negative"}
ScanPats == {"Rows", "Columns", "C then R", "R then C"}
ToolKinds == {"Flat", "Ball"}
RoughDepths == {0, 1, 2}
RoughOffsets == {0, 1}

\* The configurations: the fields that are not varied hold one value.
Config(im, normalize, invert, z_cut, tool, scandir, scanpat, depth_pp, rough_offset, rough_scanpat) ==
    [im |-> im, normalize |-> normalize, invert |-> invert, z_cut |-> z_cut,
     z_safe |-> 5, tolerance |-> Frac(1, 4), disable_arcs |-> FALSE, units |-> "mm",
     plungetype |-> "simple", no_comments |-> TRUE, gpre |-> "", gpost |-> "",
     tool |-> tool, dia |-> 2, scandir |-> scandir, scanpat |-> scanpat, cutperim |-> 0,
     f_feed |-> 7, p_feed |-> 4, stepover |-> 1,
     ROUGH_TOOL |-> "Flat", ROUGH_DIA |-> 2, ROUGH_DEPTH_PP |-> depth_pp,
     ROUGH_OFFSET |-> rough_offset, ROUGH_SCANDIR |-> "Alternating",
     ROUGH_SCANPAT |-> rough_scanpat, ROUGH_CUTPERIM |-> 0,
     ROUGH_R_FEED |-> 6, ROUGH_P_FEED |-> 0, ROUGH_STEPOVER |-> 1]

Conversion(cfg, rough_flag) ==
    [c |-> WriteGCodeConverter(cfg, rough_flag), pc |-> "init",
     r |-> None, m |-> None, rds |-> <<>>, output_gcode |-> <<>>, cfg |-> cfg,
     rough_flag |-> rough_flag, run |-> 1, first |-> None, raised |-> None]

\* WriteGCode called again on the same configuration after it has returned:
\* converters, cache and emitter are built anew; STOP_CALC, which no line
\* of the code clears, is as the first run left it.  first keeps the lines the
\* first call returned.
RunAgain(v) ==
    [Conversion(v.cfg, v.rough_flag) EXCEPT !.c = [@ EXCEPT !.left = v.c.left],
                                            !.run = 2, !.first = Some(v.output_gcode)]

\* An image whose rows, cut 4 deep with a tool one pixel wide, lie on arcs.
ArcImage == [size |-> <<3, 3>>, px |-> <<<<4, 4, 4>>, <<3, 1, 0>>, <<0, 1, 3>>>>]

PlungeTypes == {"simple", "arc"}
Units == {"in", "mm"}
Preambles == {"", "G90|G17"}
Postscripts == {"", "M5|M30"}

\* The settings of the output: arcs, entry cut, units, comments, preamble
\* and postscript.
Options(cfg, disable_arcs, plungetype, units, no_comments, gpre, gpost) ==
    [cfg EXCEPT !.disable_arcs = disable_arcs, !.plungetype = plungetype, !.units = units,
                !.no_comments = no_comments, !.gpre = gpre, !.gpost = gpost]

\* The sample iterations after which STOP_CALC may be set.
MaxStop == 12

\* A conversion during which STOP_CALC is set after k sample iterations.
Stopping(v, k) == [v EXCEPT !.c = [@ EXCEPT !.left = Some(k)]]

InitConv ==
    /\ \/ \E im \in ConvImages, normalize \in BOOLEAN, invert \in BOOLEAN, z_cut \in ConvZCuts,
             disable_arcs \in BOOLEAN :
             /\ Whole(HeightField(im, normalize, invert, z_cut, MakeToolShape(BallTool, 2, 0)))
             /\ \/ \E tool \in ToolKinds, scandir \in ScanDirs, scanpat \in ScanPats :
                      cv = Conversion([Config(im, normalize, invert, z_cut, tool, scandir,
                                              scanpat, 1, 0, "Rows")
                                       EXCEPT !.disable_arcs = disable_arcs], 0)
                \/ \E depth_pp \in RoughDepths, rough_offset \in RoughOffsets,
                      rough_scanpat \in {"Rows", "C then R"} :
                      cv = Conversion([Config(im, normalize, invert, z_cut, "Ball",
                                              "Alternating", "Rows", depth_pp, rough_offset,
                                              rough_scanpat)
                                       EXCEPT !.disable_arcs = disable_arcs], 1)
       \/ \E disable_arcs \in BOOLEAN, plungetype \in PlungeTypes, units \in Units,
             no_comments \in BOOLEAN, gpre \in Preambles, gpost \in Postscripts,
             scandir \in ScanDirs, scanpat \in ScanPats, rough_flag \in {0, 1} :
             /\ plungetype = "arc" => disable_arcs
             /\ cv = Conversion(Options([Config(ArcImage, TRUE, FALSE, -4, "Flat", scandir,
                                                scanpat, 2, 0, scanpat)
                                         EXCEPT !.dia = 1, !.ROUGH_DIA = 1],
                                        disable_arcs, plungetype, units, no_comments, gpre,
                                        gpost),
                                rough_flag)
       \/ \E k \in 0..MaxStop, scanpat \in ScanPats, gpost \in Postscripts,
             rough_flag \in {0, 1} :
             cv = Stopping(Conversion([Config(ArcImage, TRUE, FALSE, -4, "Flat",
                                              "Alternating", scanpat, 2, 0, scanpat)
                                       EXCEPT !.dia = 1, !.ROUGH_DIA = 1, !.gpost = gpost],
                                      rough_flag), k)
    /\ g = Idle /\ op = Idle /\ dg = Idle /\ hf = Idle /\ wg = Idle

DoConvertBegin ==
    /\ cv # Idle /\ cv.pc = "init"
    /\ cv' = ConvertBegin(cv)
    /\ UNCHANGED <<g, op, dg, hf, wg>>

DoLayerPass ==
    /\ cv # Idle /\ cv.pc = "layers"
    /\ MoreLayers(cv.r, cv.m)
    /\ Len(cv.rds) < MaxPasses
    /\ cv' = LayerPass(cv)
    /\ UNCHANGED <<g, op, dg, hf, wg>>

DoFloorPass ==
    /\ cv # Idle /\ cv.pc = "layers"
    /\ ~MoreLayers(cv.r, cv.m)
    /\ cv' = FloorPass(cv)
    /\ UNCHANGED <<g, op, dg, hf, wg>>

DoFinishPass ==
    /\ cv # Idle /\ cv.pc = "finish"
    /\ cv' = FinishPass(cv)
    /\ UNCHANGED <<g, op, dg, hf, wg>>

DoConvertEnd ==
    /\ cv # Idle /\ cv.pc = "end"
    /\ cv' = ConvertEnd(cv)
    /\ UNCHANGED <<g, op, dg, hf, wg>>

DoRunAgain ==
    /\ cv # Idle /\ cv.pc = "done" /\ cv.run = 1
    /\ cv' = RunAgain(cv)
    /\ UNCHANGED <<g, op, dg, hf, wg>>

NextConv ==
    \/ DoConvertBegin \/ DoLayerPass \/ DoFloorPass \/ DoFinishPass \/ DoConvertEnd
    \/ DoRunAgain

SpecConv == InitConv /\ [][NextConv]_vars

(***************************************************************************)
(* One finishing pass of a Converter built with a split step and an edge   *)
(* offset, on square images and others, with and without the border pass.  *)
(***************************************************************************)

PassImages ==
    {[size |-> <<Len(px[1]), Len(px)>>, px |-> px] :
        px \in {<<<<0, 85>>, <<255, 170>>>>,
                <<<<0, 85, 255>>, <<255, 0, 85>>, <<85, 255, 255>>>>,
                <<<<0, 85, 170, 255>>, <<255, 0, 85, 170>>, <<170, 255, 0, 85>>,
                  <<85, 170, 255, 0>>>>,
                <<<<0, 85, 255>>, <<255, 170, 85>>>>,
                <<<<0, 85>>, <<255, 0>>, <<85, 255>>>>}}

PassStepovers == {1, 2, 4}
PassSplitsteps == {Frac(0, 1), Frac(1, 4), Frac(1, 2)}
PassEdgeOffsets == {0, 1}
PassScanPats == {"Rows", "Columns", "C then R", "R then C"}

InitPass ==
    /\ \E im \in PassImages, scandir \in {"Alternating", "Positive"}, scanpat \in PassScanPats,
          cutperim \in {0, 1}, stepover \in PassStepovers, s \in PassSplitsteps,
          edge_offset \in PassEdgeOffsets :
          /\ im.size[1] - 2 * edge_offset >= 1
          /\ im.size[2] - 2 * edge_offset >= 1
          /\ cv = [Conversion([Config(im, FALSE, FALSE, -3, "Flat", scandir, scanpat, 1, 0,
                                      "Rows")
                               EXCEPT !.dia = 1, !.cutperim = cutperim, !.stepover = stepover],
                              0)
                   EXCEPT !.c = SplitConverter(@, s, edge_offset)]
    /\ g = Idle /\ op = Idle /\ dg = Idle /\ hf = Idle /\ wg = Idle

\* Converter(...) raises: WriteGCode does not catch it.
DoInitRaises ==
    /\ cv # Idle /\ cv.pc = "init"
    /\ InitRaises(cv.c)
    /\ cv' = [cv EXCEPT !.pc = "raised", !.raised = Some("ZeroDivisionError")]
    /\ UNCHANGED <<g, op, dg, hf, wg>>

\* convert() up to the pass.
DoPassBegin ==
    /\ cv # Idle /\ cv.pc = "init"
    /\ ~InitRaises(cv.c)
    /\ cv' = ConvertBegin(cv)
    /\ UNCHANGED <<g, op, dg, hf, wg>>

\* one_pass returns.
DoOnePass ==
    /\ cv # Idle /\ cv.pc = "finish"
    /\ PassOutcome(cv.c) = "ok"
    /\ cv' = FinishPass(cv)
    /\ UNCHANGED <<g, op, dg, hf, wg>>

\* one_pass raises: convert does not catch it.
DoPassRaises ==
    /\ cv # Idle /\ cv.pc = "finish"
    /\ PassOutcome(cv.c) # "ok"
    /\ cv' = [cv EXCEPT !.pc = "raised", !.raised = Some(PassOutcome(cv.c))]
    /\ UNCHANGED <<g, op, dg, hf, wg>>

NextPass == DoInitRaises \/ DoPassBegin \/ DoOnePass \/ DoPassRaises \/ DoConvertEnd

SpecPass == InitPass /\ [][NextPass]_vars

(***************************************************************************)
(* The index schedule of mill_rows and mill_cols alone: jrange for n lines, *)
(* with the split pixels a split step of at most a half can give.          *)
(***************************************************************************)

MaxLines == 5
MaxPixelstep == 4

InitRange ==
    /\ \E n \in 1..MaxLines, pixelstep \in 1..MaxPixelstep, splitpixels \in 0..MaxPixelstep,
          pixel_offset \in 0..MaxLines :
          /\ n - 2 * pixel_offset >= 1
          /\ 2 * splitpixels <= pixelstep
          /\ cv = [pc |-> "range", n |-> n, pixelstep |-> pixelstep,
                   splitpixels |-> splitpixels, pixel_offset |-> pixel_offset,
                   jrange |-> None, raised |-> None]
    /\ g = Idle /\ op = Idle /\ dg = Idle /\ hf = Idle /\ wg = Idle

\* jrange is built.
DoJRange ==
    /\ cv # Idle /\ cv.pc = "range"
    /\ ~JRangeRaises(cv.n, cv.splitpixels, cv.pixel_offset, cv.pixelstep)
    /\ cv' = [cv EXCEPT !.pc = "built",
                        !.jrange = Some(JRange(cv.n, cv.splitpixels, cv.pixel_offset,
                                               cv.pixelstep))]
    /\ UNCHANGED <<g, op, dg, hf, wg>>

\* jrange[0] raises.
DoJRangeRaises ==
    /\ cv # Idle /\ cv.pc = "range"
    /\ JRangeRaises(cv.n, cv.splitpixels, cv.pixel_offset, cv.pixelstep)
    /\ cv' = [cv EXCEPT !.pc = "raised", !.raised = Some("IndexError")]
    /\ UNCHANGED <<g, op, dg, hf, wg>>

NextRange == DoJRange \/ DoJRangeRaises

SpecRange == InitRange /\ [][NextRange]_vars

(***************************************************************************)
(* The tool shape WriteGCode builds, for every pair of finish and roughing *)
(* tool kinds, tool diameters of one to three reaches and both calls.  The *)
(* state is a record: cfg and rough_flag the arguments, TOOL the shape     *)
(* once it is built.                                                       *)
(***************************************************************************)

ToolNames == {"Flat", "Ball", "V"}
ToolReaches == {1, 2, 3}

InitTool ==
    /\ \E tool \in ToolNames, rough_tool \in ToolNames, dia \in ToolReaches,
          rough_dia \in ToolReaches, rough_offset \in RoughOffsets, rough_flag \in {0, 1} :
          cv = [pc |-> "settings",
                cfg |-> [Config(ArcImage, FALSE, FALSE, -3, tool, "Alternating", "Rows", 1,
                                rough_offset, "Rows")
                         EXCEPT !.dia = dia, !.ROUGH_DIA = rough_dia, !.ROUGH_TOOL = rough_tool],
                rough_flag |-> rough_flag, TOOL |-> None]
    /\ g = Idle /\ op = Idle /\ dg = Idle /\ hf = Idle /\ wg = Idle

\* TOOL = make_tool_shape(...), in the branch of rough_flag.
DoMakeToolShape ==
    /\ cv # Idle /\ cv.pc = "settings"
    /\ cv' = [cv EXCEPT !.pc = "tool",
                        !.TOOL = Some(WriteGCodeConverter(cv.cfg, cv.rough_flag).tool_shape)]
    /\ UNCHANGED <<g, op, dg, hf, wg>>

NextTool == DoMakeToolShape

SpecTool == InitTool /\ [][NextTool]_vars

(***************************************************************************)
(* Reduce_Scan_Lace on one span of the wrapped converter.  A sample is the *)
(* milldata tuple <<i, <<x, y, z>>, dz_dx, dz_dy>>, i its place in the     *)
(* span counted from 0.  The reducer is a record: primary, keep and slope  *)
(* its arguments, span the samples, i the index the loop is at, a and b    *)
(* the bracket (a is None outside one), out the subspans yielded, each     *)
(* with the bracket it was built from.                                     *)
(***************************************************************************)

\* bos(j)
Bos(j, keep) == j - (j % keep)

\* eos(j)
Eos(j, keep) == IF j % keep = 0 THEN j ELSE j + keep - (j % keep)

\* span[s:e], s and e counted from 0 and e cut at the length of the span.
Slice(span, s, e) == SubSeq(span, s + 1, Min2(e, Len(span)))

\* idx, as a place in the tuple counted from 1.
LaceIdx(primary) == IF primary THEN 4 ELSE 3

\* test(abs(ki), slope)
LaceTest(primary, ki, slope) == IF primary THEN Abs(ki) <= slope ELSE Abs(ki) >= slope

\* One turn of the loop over the samples, at index c.i.
LaceSample(c) ==
    LET t == LaceTest(c.primary, c.span[c.i + 1][LaceIdx(c.primary)], c.slope) IN
    [(IF c.a = None
      THEN (IF t THEN [c EXCEPT !.a = Some(c.i), !.b = c.i] ELSE c)
      ELSE IF t THEN [c EXCEPT !.b = c.i]
      ELSE IF c.i - c.b < c.keep THEN c
      ELSE [c EXCEPT !.out = Append(@, [points |-> Slice(c.span, Bos(Val(c.a), c.keep),
                                                          Eos(c.b + 1, c.keep)),
                                        a |-> Val(c.a), b |-> c.b]),
                     !.a = None])
     EXCEPT !.i = c.i + 1]

\* After the loop: the bracket left open is yielded.
LaceEnd(c) ==
    [(IF c.a # None
      THEN [c EXCEPT !.out = Append(@, [points |-> Slice(c.span, Val(c.a), Len(c.span)),
                                        a |-> Val(c.a), b |-> c.b])]
      ELSE c)
     EXCEPT !.pc = "done"]

MaxSpan == 4
LaceKeeps == {2, 3}
LaceSlope == 1
LaceDzDx == {-2, 0}
LaceDzDy == {0, 2}

\* The spans of n samples over a flat row of pixels.
LaceSpans(n) ==
    { [k \in 1..n |-> <<k - 1, <<k - 1, 0, 0>>, d[k][1], d[k][2]>>] :
        d \in [1..n -> LaceDzDx \X LaceDzDy] }

InitLace ==
    /\ \E n \in 1..MaxSpan, keep \in LaceKeeps, primary \in BOOLEAN :
          \E span \in LaceSpans(n) :
             cv = [pc |-> "lace", primary |-> primary, keep |-> keep, slope |-> LaceSlope,
                   span |-> span, i |-> 0, a |-> None, b |-> 0, out |-> <<>>]
    /\ g = Idle /\ op = Idle /\ dg = Idle /\ hf = Idle /\ wg = Idle

\* for i, si in enumerate(span): one sample.
DoLaceSample ==
    /\ cv # Idle /\ cv.pc = "lace" /\ cv.i < Len(cv.span)
    /\ cv' = LaceSample(cv)
    /\ UNCHANGED <<g, op, dg, hf, wg>>

\* if a is not None: yield True, span[a:]
DoLaceEnd ==
    /\ cv # Idle /\ cv.pc = "lace" /\ cv.i = Len(cv.span)
    /\ cv' = LaceEnd(cv)
    /\ UNCHANGED <<g, op, dg, hf, wg>>

NextLace == DoLaceSample \/ DoLaceEnd

SpecLace == InitLace /\ [][NextLace]_vars

(***************************************************************************)
(* The emitter of the command line tool, dmap2gcode_cli.Gcode, with its    *)
(* calls as frames on a stack: flush, rapid, cut and the others call each  *)
(* other, and a frame is the method's name, the place pc it has reached    *)
(* and its arguments.  stack is the call stack, the running frame last;    *)
(* raised is the exception that has left the outermost call.  The          *)
(* interpreter raises RecursionError when the stack is MaxDepth frames     *)
(* deep and one more is called; the exception unwinds every frame.         *)
(***************************************************************************)

MaxDepth == 8
MaxCliCalls == 4

CliGcode(safetyheight, homeheight) ==
    [lastx |-> None, lasty |-> None, lastz |-> Some(safetyheight), lasta |-> None,
     lastgcode |-> "None", homeheight |-> homeheight, safetyheight |-> safetyheight,
     cuts |-> <<>>, out |-> <<>>, stack |-> <<>>, raised |-> None, begun |-> FALSE,
     ended |-> FALSE, ncalls |-> 0]

CliFrame(fn, x, y, z, a) == [fn |-> fn, pc |-> 0, x |-> x, y |-> y, z |-> z, a |-> a]

\* The running frame.
CliTop(e) == e.stack[Len(e.stack)]

\* The running frame returns.
CliReturn(e) == [e EXCEPT !.stack = SubSeq(@, 1, Len(@) - 1)]

\* The running frame calls f and will go on at its next place.
CliInvoke(e, f) ==
    IF Len(e.stack) >= MaxDepth
    THEN [e EXCEPT !.stack = <<>>, !.raised = Some("RecursionError")]
    ELSE [e EXCEPT !.stack = Append([@ EXCEPT ![Len(@)].pc = @ + 1], f)]

\* self.write with a line.
CliWrite(e, line) == [e EXCEPT !.out = Append(@, line)]

\* flush
CliFlush(e) ==
    IF CliTop(e).pc = 0 /\ e.lastgcode = "G0"
    THEN CliInvoke(e, CliFrame("rapid", e.lastx, e.lasty, e.lastz, e.lasta))
    ELSE IF CliTop(e).pc = 0 /\ e.lastgcode = "G1"
    THEN CliInvoke(e, CliFrame("cut", e.lastx, e.lasty, e.lastz, None))
    ELSE CliReturn(e)

\* rapid
CliRapid(e) ==
    IF CliTop(e).pc = 0 THEN CliInvoke(e, CliFrame("flush", None, None, None, None))
    ELSE IF CliTop(e).pc = 1
    THEN CliInvoke(e, CliFrame("move_common", CliTop(e).x, CliTop(e).y, CliTop(e).z,
                               CliTop(e).a))
    ELSE CliReturn(e)

\* The words of move_common's line.
CliCodes(f) ==
    (IF f.x # None THEN <<<<"X", Val(f.x)>>>> ELSE <<>>)
    \o (IF f.y # None THEN <<<<"Y", Val(f.y)>>>> ELSE <<>>)
    \o (IF f.z # None THEN <<<<"Z", Val(f.z)>>>> ELSE <<>>)
    \o (IF f.a # None THEN <<<<"A", Val(f.a)>>>> ELSE <<>>)

\* move_common from "if gcode != self.lastgcode" on, for gcode "G0".
CliMove(e, f) ==
    [(IF CliCodes(f) # <<>> THEN CliWrite(IF e.lastgcode # "G0" THEN CliWrite(e, <<"G0">>) ELSE e,
                                          CliCodes(f))
      ELSE IF e.lastgcode # "G0" THEN CliWrite(e, <<"G0">>) ELSE e)
     EXCEPT !.lastgcode = "G0",
            !.lastx = IF f.x # None THEN f.x ELSE @,
            !.lasty = IF f.y # None THEN f.y ELSE @,
            !.lastz = IF f.z # None THEN f.z ELSE @,
            !.lasta = IF f.a # None THEN f.a ELSE @]

\* move_common
CliMoveCommon(e) ==
    IF CliTop(e).pc = 0 /\ e.cuts # <<>>
    THEN CliInvoke(e, CliFrame("flush", None, None, None, None))
    ELSE CliReturn(CliMove([e EXCEPT !.cuts = <<>>], CliTop(e)))

\* cut
CliCut(e) ==
    IF CliTop(e).pc = 0 /\ e.lastgcode # "G1"
    THEN CliInvoke(e, CliFrame("flush", None, None, None, None))
    ELSE CliReturn([e EXCEPT !.lastgcode = "G1",
                             !.cuts = Append(@, <<CliTop(e).x, CliTop(e).y, CliTop(e).z>>),
                             !.lastx = CliTop(e).x, !.lasty = CliTop(e).y,
                             !.lastz = CliTop(e).z])

\* safety
CliSafety(e) ==
    IF CliTop(e).pc = 0 THEN CliInvoke(e, CliFrame("flush", None, None, None, None))
    ELSE IF CliTop(e).pc = 1
    THEN CliInvoke(e, CliFrame("rapid", None, None, Some(e.safetyheight), None))
    ELSE CliReturn(e)

\* end, with the postscript empty.
CliEnd(e) ==
    IF CliTop(e).pc = 0 THEN CliInvoke(e, CliFrame("flush", None, None, None, None))
    ELSE CliReturn([CliWrite(CliWrite(CliWrite(CliWrite(e,
                        <<"G0", <<"Z", e.safetyheight>>>>), <<"G0 X0 Y0">>), <<"M5">>), <<"M2">>)
                    EXCEPT !.ended = TRUE])

\* begin, with the header empty and arcs enabled.
CliBegin(e) ==
    [CliWrite(CliWrite(CliWrite(CliWrite(e, <<"G17 G90 M3 S3000 G40 G94">>), <<"G20">>),
                       <<"G91.1">>), <<"G0", <<"Z", e.safetyheight>>>>)
     EXCEPT !.begun = TRUE]

CliXs == {0, 1}
CliZs == {-1, -2}
CliSafetyHeights == {2, 5}

\* The calls Converter.convert, one_pass, mill_rows and SimpleEntryCut make
\* on the emitter after begin().
CliCalls ==
    {CliFrame("safety", None, None, None, None), CliFrame("flush", None, None, None, None),
     CliFrame("end", None, None, None, None)}
    \cup {CliFrame("rapid", Some(x), Some(0), None, None) : x \in CliXs}
    \cup {CliFrame("cut", None, None, Some(z), None) : z \in CliZs}
    \cup {CliFrame("cut", Some(x), Some(0), Some(z), None) : x \in CliXs, z \in CliZs}

InitCli ==
    /\ \E safetyheight \in CliSafetyHeights : g = CliGcode(safetyheight, 10)
    /\ op = Idle /\ dg = Idle /\ cv = Idle /\ hf = Idle /\ wg = Idle

\* No call is running and none has raised.
CliIdle == g.stack = <<>> /\ g.raised = None /\ ~g.ended

\* A frame of fn is running.
CliRunning(fn) == g.stack # <<>> /\ CliTop(g).fn = fn

DoCliBegin ==
    /\ CliIdle /\ ~g.begun
    /\ g' = CliBegin(g)
    /\ UNCHANGED <<op, dg, cv, hf, wg>>

\* The converter calls a method of the emitter.
DoCliCall ==
    /\ CliIdle /\ g.begun /\ g.ncalls < MaxCliCalls
    /\ \E f \in CliCalls : g' = [g EXCEPT !.stack = <<f>>, !.ncalls = @ + 1]
    /\ UNCHANGED <<op, dg, cv, hf, wg>>

DoCliFlush ==
    /\ CliRunning("flush")
    /\ g' = CliFlush(g)
    /\ UNCHANGED <<op, dg, cv, hf, wg>>

DoCliRapid ==
    /\ CliRunning("rapid")
    /\ g' = CliRapid(g)
    /\ UNCHANGED <<op, dg, cv, hf, wg>>

DoCliMoveCommon ==
    /\ CliRunning("move_common")
    /\ g' = CliMoveCommon(g)
    /\ UNCHANGED <<op, dg, cv, hf, wg>>

DoCliCut ==
    /\ CliRunning("cut")
    /\ g' = CliCut(g)
    /\ UNCHANGED <<op, dg, cv, hf, wg>>

DoCliSafety ==
    /\ CliRunning("safety")
    /\ g' = CliSafety(g)
    /\ UNCHANGED <<op, dg, cv, hf, wg>>

DoCliEnd ==
    /\ CliRunning("end")
    /\ g' = CliEnd(g)
    /\ UNCHANGED <<op, dg, cv, hf, wg>>

NextCli ==
    \/ DoCliBegin \/ DoCliCall \/ DoCliFlush \/ DoCliRapid \/ DoCliMoveCommon
    \/ DoCliCut \/ DoCliSafety \/ DoCliEnd

SpecCli == InitCli /\ [][NextCli]_vars

(***************************************************************************)
(* WriteGCode as one call on a GCodeConfig.  A call is a record: cfg the   *)
(* configuration, rough_flag and config_file the arguments, gcode the      *)
(* attribute gcode of the configuration, status what was handed to         *)
(* statusMessage.set, pc "call" before and "returned" after the call, and   *)
(* returned the value returned: None, or the list of lines.  The lines of  *)
(* the header are statements like those the emitter writes.                *)
(***************************************************************************)

RECURSIVE Converted(_)
\* convert(), from its first line to its return.
Converted(v) ==
    IF v.pc = "done" THEN v
    ELSE IF v.pc = "init" THEN Converted(ConvertBegin(v))
    ELSE IF v.pc = "layers"
    THEN (IF MoreLayers(v.r, v.m) THEN Converted(LayerPass(v)) ELSE Converted(FloorPass(v)))
    ELSE IF v.pc = "finish" THEN Converted(FinishPass(v))
    ELSE Converted(ConvertEnd(v))

\* The header as the value of self.gcode in config-file mode.
HeaderLines(header) == [i \in 1..Len(header) |-> Stmt("header", header[i])]

\* WriteGCode with self.gcode = header on every path.
WriteGCodeHeaderOnly(w) ==
    [w EXCEPT !.gcode = HeaderLines(Header(w.cfg, TRUE)), !.returned = None, !.pc = "returned"]

\* WriteGCode: in config-file mode self.gcode is the header and the call
\* returns nothing; without an image the status is set and the call returns
\* nothing; else self.gcode is what convert() returns, and is returned.
WriteGCode(w) ==
    IF w.config_file
    THEN [w EXCEPT !.gcode = HeaderLines(Header(w.cfg, TRUE)),
                   !.returned = None, !.pc = "returned"]
    ELSE IF w.cfg.im = None
    THEN [w EXCEPT !.status = Some("No Image Loaded"), !.returned = None, !.pc = "returned"]
    ELSE [w EXCEPT !.gcode = Converted(Conversion(w.cfg, w.rough_flag)).output_gcode,
                   !.returned = Some(Converted(Conversion(w.cfg, w.rough_flag)).output_gcode),
                   !.pc = "returned"]

\* A GCodeConfig and the arguments, before the call.
CallOf(cfg, rough_flag, config_file, gcode) ==
    [cfg |-> cfg, rough_flag |-> rough_flag, config_file |-> config_file, gcode |-> gcode,
     status |-> None, returned |-> None, pc |-> "call"]

\* The calls: with and without an image, self.gcode empty or holding an
\* earlier result, and settings with valid values and with others.
InitCall ==
    /\ \E im \in {None, ArcImage}, rough_flag \in {0, 1}, config_file \in BOOLEAN,
          no_comments \in BOOLEAN, gpre \in Preambles,
          gcode \in {<<>>, <<Stmt("post", "M2")>>},
          tool \in {"Flat", "Ball", "Cone"}, scanpat \in {"Rows", "C then R", "Diagonal"},
          scandir \in {"Alternating", "Sideways"}, f_feed \in {7, 0, -3} :
          wg = CallOf([Config(im, TRUE, FALSE, -4, tool, scandir, scanpat, 2, 0, scanpat)
                       EXCEPT !.dia = 1, !.ROUGH_DIA = 1, !.ROUGH_TOOL = tool,
                              !.ROUGH_SCANDIR = scandir, !.f_feed = f_feed,
                              !.ROUGH_R_FEED = f_feed, !.no_comments = no_comments,
                              !.gpre = gpre],
                      rough_flag, config_file, gcode)
    /\ g = Idle /\ op = Idle /\ dg = Idle /\ cv = Idle /\ hf = Idle

DoWriteGCode ==
    /\ wg # Idle /\ wg.pc = "call"
    /\ wg' = WriteGCode(wg)
    /\ UNCHANGED <<g, op, dg, cv, hf>>

NextCall == DoWriteGCode

SpecCall == InitCall /\ [][NextCall]_vars

(***************************************************************************)
(* Properties of the emitter.                                              *)
(***************************************************************************)

\* A line that leaves the machine in rapid motion.
IsRapidLine(l) ==
    l.kind = "move" /\ (l.word = "G0" \/ (l.word = "" /\ l.prev = "G0"))

\* C5: every rapid line written between begin() and end() leaves the tool at
\* or above safetyheight, for every sequence of entry cuts, cuts and
\* safety() calls; the one exception is a rapid of the entry cut that
\* descends to the first cut Z of its span.
RapidsStayAtSafeHeight ==
    \A i \in 1..Len(g.out) :
        IsRapidLine(g.out[i])
        => \/ g.out[i].m[3] # None /\ Val(g.out[i].m[3]) >= g.safetyheight
           \/ op.name = "entry_cut" /\ g.out[i].z = Some(op.p[3])

\* The lines that writing out the queue of e produces.
FlushLines(e) == Flush(Fresh(e)).out

\* After the call the queue is empty and the call's lines start with the
\* lines of the queue.
QueueWrittenFirst(e, e1) ==
    /\ e1.cuts = <<>>
    /\ Len(e1.out) >= Len(FlushLines(e))
    /\ SubSeq(e1.out, 1, Len(FlushLines(e))) = FlushLines(e)

FlushingCalls == {"rapid", "set_feed", "safety", "home", "end", "flush"}

\* C8, as stated: after set_plane, rapid, set_feed, safety, home and end the
\* queue is empty and the queued cuts were written before the call's own
\* line; a flush of an empty queue writes nothing and changes nothing.
EveryNonCutCallFlushes ==
    [][/\ op'.name \in FlushingCalls \cup {"set_plane"} => QueueWrittenFirst(g, g')
       /\ op'.name = "flush" /\ g.cuts = <<>> => g' = Fresh(g)]_vars

\* C8, amended: rapid, set_feed, safety, home, end and flush empty the queue
\* and write the queued cuts before their own line; set_plane leaves the
\* queue as it is and writes at most its plane word; a flush of an empty
\* queue writes nothing and changes nothing.
NonCutCallsFlushButSetPlane ==
    [][/\ op'.name \in FlushingCalls => QueueWrittenFirst(g, g')
       /\ op'.name = "set_plane"
          => /\ g'.cuts = g.cuts
             /\ \A i \in 1..Len(g'.out) : g'.out[i].kind = "plane"
       /\ op'.name = "flush" /\ g.cuts = <<>> => g' = Fresh(g)]_vars

\* A set_feed that found cuts queued: their moves, then the F word.
FeedAfterQueuedCuts ==
    /\ op.name = "set_feed"
    /\ Len(g.out) >= 2
    /\ g.out[1].kind = "move"
    /\ g.out[Len(g.out)].kind = "feed"
    /\ g.cuts = <<>>

\* C9: a line of move_common carries the word G0 or G1 only when the word
\* differs from the motion code of the move before it.
MotionWordOnlyOnChange ==
    \A i \in 1..Len(g.out) :
        (g.out[i].kind = "move" /\ g.out[i].b # None /\ g.out[i].word \in {"G0", "G1"})
        => g.out[i].word # g.out[i].was

\* C10: a G0/G1 line has an axis word only for an axis whose target differs
\* from the tracked last value, has at least one axis word, and after it the
\* tracked last values are the position the machine was commanded to.
AxisWordsFollowTracking ==
    \A i \in 1..Len(g.out) :
        (g.out[i].kind = "move" /\ g.out[i].b # None)
        => /\ g.out[i].x # None => g.out[i].x # Val(g.out[i].b)[1]
           /\ g.out[i].y # None => g.out[i].y # Val(g.out[i].b)[2]
           /\ g.out[i].z # None => g.out[i].z # Val(g.out[i].b)[3]
           /\ g.out[i].a # None => g.out[i].a # Val(g.out[i].b)[4]
           /\ <<g.out[i].x, g.out[i].y, g.out[i].z, g.out[i].a>> # <<None, None, None, None>>
           /\ g.out[i].m = g.out[i].t

(***************************************************************************)
(* Properties of douglas.                                                  *)
(***************************************************************************)

\* The point p is within tol of the segment from l1 to l2.
WithinSegment(l1, l2, p, tol) ==
    IF ChordD2(l1, l2) = 0
    THEN tol.d * tol.d * Sq3(p[1] - l1[1], p[2] - l1[2], p[3] - l1[3]) <= tol.n * tol.n
    ELSE tol.d * tol.d * DistLseg(l1, l2, p) <= tol.n * tol.n * ChordD2(l1, l2)

\* | |centre - q/qd| - radius | <= tol, for the point q/qd of the plane and
\* the radius of the arc, the distance of its start s from the centre.
WithinArc(c, s, q, qd, tol) ==
    LET rn == qd * qd * ((c.cd * s[1] - c.c1) * (c.cd * s[1] - c.c1)
                         + (c.cd * s[2] - c.c2) * (c.cd * s[2] - c.c2))
        a  == (c.cd * q[1] - qd * c.c1) * (c.cd * q[1] - qd * c.c1)
              + (c.cd * q[2] - qd * c.c2) * (c.cd * q[2] - qd * c.c2)
        l  == tol.d * tol.d * (a + rn) - qd * qd * c.cd * c.cd * tol.n * tol.n
    IN  l <= 0 \/ l * l <= 4 * tol.d * tol.d * tol.d * tol.d * a * rn

\* Every point of the queue lies within the tolerance of the segment
\* between the two emitted G1 points that bracket it.
PointsNearSegments ==
    \A k \in 1..Len(dg.st) :
        \E j \in 1..Len(dg.out) :
            \/ dg.out[j].p[4] = k
            \/ /\ j < Len(dg.out)
               /\ dg.out[j].p[4] <= k /\ k <= dg.out[j + 1].p[4]
               /\ dg.out[j + 1].cent = None
               /\ WithinSegment(dg.out[j].p, dg.out[j + 1].p, dg.st[k], dg.tolerance)

\* Every point of the queue that an emitted arc covers, and every midpoint
\* of two consecutive covered points, lies within the tolerance of the arc.
PointsNearArcs ==
    \A j \in 2..Len(dg.out) :
        dg.out[j].cent # None
        => LET c    == Val(dg.out[j].cent)
               pl   == Val(dg.plane)
               from == dg.out[j - 1].p[4]
               to   == dg.out[j].p[4]
               s    == GetPts(pl, dg.out[j - 1].p)
           IN  /\ \A k \in from..to :
                     WithinArc(c, s, GetPts(pl, dg.st[k]), 1, dg.tolerance)
               /\ \A k \in from..(to - 1) :
                     WithinArc(c, s,
                               <<GetPts(pl, dg.st[k])[1] + GetPts(pl, dg.st[k + 1])[1],
                                 GetPts(pl, dg.st[k])[2] + GetPts(pl, dg.st[k + 1])[2]>>,
                               2, dg.tolerance)

\* C4: every point of the queue lies within the tolerance of the move that
\* replaces it: without a plane, of the segment between the two emitted G1
\* points that bracket it; with a plane, every point an emitted arc covers
\* and every midpoint of consecutive covered points lies within the
\* tolerance of the arc's radius from its centre.
SimplifiedWithinTolerance ==
    dg.done => /\ dg.plane = None => PointsNearSegments
               /\ dg.plane # None => PointsNearArcs

\* douglas calls itself on st: no arc is emitted and worst_dist is above the
\* tolerance; sc is the result of its loop over the points.
DouglasRecurses(st, tol, plane, sc) ==
    /\ Len(st) > 1
    /\ ~(/\ ~sc.min_rad.inf
          /\ ArcFits(st, tol, Val(plane), sc,
                     ArcCenter(Val(plane), st[1], st[sc.max_arc], st[Len(st)])))
    /\ sc.wd * tol.d * tol.d > tol.n * tol.n * ChordD2(st[1], st[Len(st)])

RECURSIVE SplitsInside(_, _, _)
\* Wherever douglas calls itself, on st and below, worst is an inner index.
SplitsInsideAt(st, tol, plane, sc) ==
    DouglasRecurses(st, tol, plane, sc)
    => /\ 1 < sc.worst /\ sc.worst < Len(st)
       /\ SplitsInside(SubSeq(st, 1, sc.worst), tol, plane)
       /\ SplitsInside(SubSeq(st, sc.worst, Len(st)), tol, plane)

SplitsInside(st, tol, plane) ==
    SplitsInsideAt(st, tol, plane, ScanWorst(st, plane, 1, ScanStart))

\* C26: for every non-empty queue and every tolerance >= 0, wherever douglas
\* recurses the split index worst lies strictly between the first and the
\* last index, so that both calls get a shorter list; its output starts at
\* the first queued point, ends at the last, and visits queued points only,
\* in their order in the queue.
DouglasSplitsInsideInOrder ==
    /\ SplitsInside(dg.st, dg.tolerance, dg.plane)
    /\ dg.done
       => /\ dg.out # <<>>
          /\ dg.out[1].p = dg.st[1]
          /\ dg.out[Len(dg.out)].p = dg.st[Len(dg.st)]
          /\ \A j \in 1..Len(dg.out) :
                dg.out[j].p[4] \in 1..Len(dg.st) /\ dg.out[j].p = dg.st[dg.out[j].p[4]]
          /\ \A j \in 1..(Len(dg.out) - 1) : dg.out[j].p[4] <= dg.out[j + 1].p[4]

\* A queue of three points that douglas has split at the second.
DouglasHasSplit ==
    /\ dg.done /\ Len(dg.st) = 3
    /\ DouglasRecurses(dg.st, dg.tolerance, dg.plane, ScanWorst(dg.st, dg.plane, 1, ScanStart))
    /\ Len(dg.out) = 3 /\ dg.out[2].p = dg.st[2]

(***************************************************************************)
(* Properties of the height field.                                         *)
(***************************************************************************)

\* C3: for a positive z_cut, every value of the height field inside the
\* padding lies within [-z_cut, 0], whatever the pixels, normalize and
\* invert.
FieldWithinDepth ==
    (hf.MAT # None /\ hf.z_cut > 0)
    => LET M == Val(hf.MAT)
       IN  \A c \in Cells(M.width, M.height) :
              /\ -hf.z_cut * M.den <= M.matrix[c]
              /\ M.matrix[c] <= 0

(***************************************************************************)
(* Properties of the Converter.                                            *)
(***************************************************************************)

\* The pixel under the cell d of the tool when its centre is at the point p
\* of a scan: p[1] is the column, the row is counted down from the top.
PixelUnder(c, p, d) ==
    <<c.w1 - 1 - p[2] + d[1] - (c.tool_shape.width - 1) \div 2,
      p[1] + d[2] - (c.tool_shape.width - 1) \div 2>>

\* The tool at p stays at or above the field in every cell of its footprint
\* that lies over the image.
ToolClears(c, p) ==
    \A d \in Cells(c.tool_shape.width, c.tool_shape.width) :
        (c.tool_shape.matrix[d] # None /\ PixelUnder(c, p, d) \in Cells(c.image.width, c.image.height))
        => p[3] + Val(c.tool_shape.matrix[d]) >= c.image.matrix[PixelUnder(c, p, d)]

\* C1: non-gouge.  For every line milled by mill_rows or mill_cols in a pass
\* and every point queued for it, Z + tool_shape(dx, dy) is at least the
\* height of the field at every pixel of the image under the tool's
\* footprint, whatever the field, the tool and the layer floor rd.
NonGouge ==
    \A k \in 1..Len(cv.c.log) :
        \A n \in 1..Len(cv.c.log[k].cuts) : ToolClears(cv.c, cv.c.log[k].cuts[n])

\* A queued point that the footprint has lifted: above the layer floor and
\* above the pixel under the tool's centre.
LiftedCutQueued ==
    \E k \in 1..Len(cv.c.log) :
        \E n \in 1..Len(cv.c.log[k].cuts) :
            LET p == cv.c.log[k].cuts[n]
            IN  /\ p[3] > cv.c.rd
                /\ p[3] > cv.c.image.matrix[<<cv.c.w1 - 1 - p[2], p[1]>>]

\* A line that cuts: an arc, or a move in G1.
IsCutLine(l) ==
    \/ l.kind = "arc"
    \/ l.kind = "move" /\ l.b # None /\ (l.word = "G1" \/ (l.word = "" /\ l.was = "G1"))

\* The Z a cutting line is aimed at.
CutZ(l) == IF l.kind = "arc" THEN Val(l.z) ELSE Val(l.t[3])

\* C2: with z_cut given as a positive magnitude, every cut point emitted by
\* a conversion, finish or roughing, has Z <= 0 and Z >= -z_cut.
CutsWithinDepth ==
    (cv.pc # "init" /\ cv.cfg.z_cut > 0)
    => \A i \in 1..Len(cv.c.g.out) :
          IsCutLine(cv.c.g.out[i])
          => /\ CutZ(cv.c.g.out[i]) <= 0
             /\ CutZ(cv.c.g.out[i]) >= -cv.cfg.z_cut

\* The samples of a span by their index.
InInputOrder(points) == \A k \in 1..(Len(points) - 1) : points[k][1] < points[k + 1][1]
InReverseOrder(points) == \A k \in 1..(Len(points) - 1) : points[k][1] > points[k + 1][1]

\* The direction of a span by the X of its points.
RunsPlusX(points) == \A k \in 1..(Len(points) - 1) : points[k][2][1] < points[k + 1][2][1]
RunsMinusX(points) == \A k \in 1..(Len(points) - 1) : points[k][2][1] > points[k + 1][2][1]

\* The rows of the pass milled by mill_rows with an alternating converter.
IsAlternatingRow(s) == s.axis = "rows" /\ ~s.border /\ s.kind = "Alternating"
AlternatingRows == SelectSeq(cv.c.log, IsAlternatingRow)

\* C6, as stated: with the alternating converter, counting calls from 1
\* after construction or reset(), every odd call yields the samples in input
\* order and every even call yields them reversed; in mill_rows the first
\* milled row runs in +X, the second in -X, the third in +X, and so on.
OddCallsForward ==
    /\ \A k \in 1..Len(cv.c.log) :
          cv.c.log[k].kind = "Alternating"
          => IF cv.c.log[k].call % 2 = 1 THEN InInputOrder(cv.c.log[k].points)
             ELSE InReverseOrder(cv.c.log[k].points)
    /\ \A k \in 1..Len(AlternatingRows) :
          IF k % 2 = 1 THEN RunsPlusX(AlternatingRows[k].points)
          ELSE RunsMinusX(AlternatingRows[k].points)

\* C6, amended: with the alternating converter, counting calls from 1 after
\* construction or reset(), every odd call yields the samples reversed and
\* every even call yields them in input order; in mill_rows the k-th milled
\* row is the k-th call, so that the first milled row runs in -X, the second
\* in +X, the third in -X, and so on.
OddCallsReversed ==
    /\ \A k \in 1..Len(cv.c.log) :
          cv.c.log[k].kind = "Alternating"
          => IF cv.c.log[k].call % 2 = 1 THEN InReverseOrder(cv.c.log[k].points)
             ELSE InInputOrder(cv.c.log[k].points)
    /\ \A k \in 1..Len(AlternatingRows) :
          /\ AlternatingRows[k].call = k
          /\ IF k % 2 = 1 THEN RunsMinusX(AlternatingRows[k].points)
             ELSE RunsPlusX(AlternatingRows[k].points)

\* Three rows milled in a pass with the alternating converter, of three
\* samples each.
ThreeAlternatingRows ==
    /\ Len(AlternatingRows) = 3
    /\ \A k \in 1..3 : Len(AlternatingRows[k].points) = 3

\* The layer floors -D, -2D, ... strictly above m, counted.
Layers(D, m) == Cardinality({k \in 1..(-m) : -k * D > m})

\* convert() with roughing_delta D > 0 and field minimum m <= 0: the passes
\* run so far are the layer floors -D, -2D, ... strictly above m, in that
\* order, then at most one pass with rd = m; when the loop is left the pass
\* with rd = m has run.
LayerFloorsInOrder ==
    (cv.pc # "init" /\ cv.c.roughing_delta > 0 /\ MatMin(cv.c.image) <= 0)
    => /\ Len(cv.rds) <= Layers(cv.c.roughing_delta, cv.m) + 1
       /\ \A k \in 1..Len(cv.rds) :
             cv.rds[k] = IF k <= Layers(cv.c.roughing_delta, cv.m)
                         THEN -k * cv.c.roughing_delta ELSE cv.m
       /\ cv.pc \in {"end", "done"}
          => Len(cv.rds) = Layers(cv.c.roughing_delta, cv.m) + 1

\* An image with a black and a white pixel: its field spans the depth.
SpansGrays(im) ==
    /\ \E i \in 1..Len(im.px) : \E j \in 1..Len(im.px[i]) : im.px[i][j] = 0
    /\ \E i \in 1..Len(im.px) : \E j \in 1..Len(im.px[i]) : im.px[i][j] = 255

\* For z_cut = 3 and D = 1, exactly three passes with rd = -1, -2, -3.
ThreeLayersForDepthThree ==
    (cv.pc \in {"end", "done"} /\ cv.c.roughing_delta = 1 /\ cv.cfg.z_cut = 3 /\ SpansGrays(cv.cfg.im))
    => cv.rds = <<-1, -2, -3>>

\* C7: with roughing_delta D > 0 and field minimum m <= 0, convert() runs
\* one_pass once for each layer floor rd = -D, -2D, ... strictly above m, in
\* that order, then exactly one final pass with rd = m; the rd values are
\* strictly decreasing and never below m, and the loop ends; for z_cut = 3
\* and D = 1 these are exactly three passes with rd = -1, -2, -3.
RoughingLayers == LayerFloorsInOrder /\ ThreeLayersForDepthThree

\* C11: when disable_arcs is true, no line of the conversion output is a G2
\* or G3 move, a plane selection written by set_plane, or G91.1, for every
\* image, every scan pattern and every plunge type, "arc" included.
NoArcOutputWhenDisabled ==
    (cv.pc # "init" /\ cv.cfg.disable_arcs)
    => \A i \in 1..Len(cv.c.g.out) :
          /\ cv.c.g.out[i].kind \notin {"arc", "plane", "g911"}
          /\ cv.c.g.out[i].word \notin {"G2", "G3", "G91.1"}

\* A pass with arcs disabled and the arc plunge asked for, that has cut.
ArcsDisabledPassCut ==
    /\ cv.pc = "end" /\ cv.cfg.disable_arcs /\ cv.cfg.plungetype = "arc"
    /\ \E i \in 1..Len(cv.c.g.out) : IsCutLine(cv.c.g.out[i])

\* C12: a completed conversion has ended with end(): no cut is left queued,
\* the emitter's tracked Z is the safe height, the last line of the output
\* is the postscript, or the single line M2 when the postscript is empty,
\* no line follows it, and with an empty postscript M2 occurs exactly once.
ConversionEndsWithPostscript ==
    cv.pc = "done"
    => /\ cv.c.g.cuts = <<>>
       /\ cv.c.g.lastz = Some(cv.cfg.z_safe)
       /\ cv.output_gcode # <<>>
       /\ \A i \in 1..Len(cv.output_gcode) :
             cv.output_gcode[i].kind = "post" <=> i = Len(cv.output_gcode)
       /\ cv.cfg.gpost = ""
          => /\ cv.output_gcode[Len(cv.output_gcode)].word = "M2"
             /\ Cardinality({i \in 1..Len(cv.output_gcode) : cv.output_gcode[i].word = "M2"}) = 1
       /\ cv.cfg.gpost = "M5|M30"
          => cv.output_gcode[Len(cv.output_gcode)].word = "M5\nM30"

\* A completed conversion that has cut and has a postscript.
CutAndPostscriptDone ==
    /\ cv.pc = "done" /\ cv.cfg.gpost = "M5|M30"
    /\ \E i \in 1..Len(cv.output_gcode) : IsCutLine(cv.output_gcode[i])

\* C13: the output of a conversion contains the units line, G20 when units
\* is "in" and G21 when units is "mm", written by begin() after all header
\* lines and before the first motion line.
UnitsLineAfterHeader ==
    cv.pc # "init"
    => \E u \in 1..Len(cv.output_gcode) :
          /\ cv.output_gcode[u].kind = "units"
          /\ cv.cfg.units = "in" => cv.output_gcode[u].word = "G20"
          /\ cv.cfg.units = "mm" => cv.output_gcode[u].word = "G21"
          /\ \A i \in 1..Len(cv.output_gcode) :
                /\ cv.output_gcode[i].kind = "header" => i < u
                /\ IsMotion(cv.output_gcode[i]) => i > u
                /\ cv.output_gcode[i].kind = "units" => i = u

\* A completed conversion in inches, with comments and a preamble of two
\* lines in its header.
InchesWithHeaderDone ==
    /\ cv.pc = "done" /\ cv.cfg.units = "in" /\ ~cv.cfg.no_comments /\ cv.cfg.gpre = "G90|G17"
    /\ Cardinality({i \in 1..Len(cv.output_gcode) : cv.output_gcode[i].kind = "header"}) > 2

\* The places of convert() in the order it passes them.
PlaceOf(pc) ==
    CASE pc = "init" -> 0 [] pc = "layers" -> 1 [] pc = "finish" -> 1
      [] pc = "end" -> 2 [] pc = "done" -> 3

\* convert() has not returned and its next step is one that is followed.
StepLeft ==
    /\ cv.pc \in {"init", "layers", "finish", "end"}
    /\ (cv.pc = "layers" /\ MoreLayers(cv.r, cv.m)) => Len(cv.rds) < MaxPasses

\* The last line of the output that names a Z.
LastZLine(out) ==
    LET zs == {i \in 1..Len(out) : out[i].kind = "move" /\ out[i].z # None}
    IN  IF zs = {} THEN 0 ELSE CHOOSE i \in zs : \A j \in zs : j <= i

\* A conversion during which STOP_CALC is set, at any step: no sample
\* iteration runs once the flag is set; when a mill function has returned on
\* the flag no cut was left queued at the return, and no line written after
\* the return, in that pass or a later one, is a cut; convert() can take a
\* step until it has returned; and when it has returned, the output ends with the postscript or M2, the last line
\* before it that names a Z being the rapid to the safe height.
StoppedCleanly ==
    cv.c.left # None
    => /\ Val(cv.c.left) >= 0
       /\ cv.c.stop # None
          => /\ Val(cv.c.stop).cuts = <<>>
             /\ cv.c.g.cuts = <<>>
             /\ \A i \in 1..Len(cv.c.g.out) :
                   i > Val(cv.c.stop).lines => ~IsCutLine(cv.c.g.out[i])
       /\ cv.pc # "done" => StepLeft
       /\ cv.pc = "done"
          => /\ cv.output_gcode[Len(cv.output_gcode)].kind = "post"
             /\ cv.output_gcode[Len(cv.output_gcode)].word
                   = (IF cv.cfg.gpost = "" THEN "M2" ELSE "M5\nM30")
             /\ LastZLine(cv.output_gcode) > 0
             /\ IsRapidLine(cv.output_gcode[LastZLine(cv.output_gcode)])
             /\ cv.output_gcode[LastZLine(cv.output_gcode)].z = Some(cv.cfg.z_safe)
             /\ cv.c.g.lastz = Some(cv.cfg.z_safe)

\* C14: if STOP_CALC becomes set at a sample iteration of mill_rows or
\* mill_cols, then from that point no further cut is queued, every cut
\* queued before is emitted, convert() terminates, and the output still
\* ends with the retract to safe Z followed by the postscript or M2.
\* Termination is the descent of convert(): every step of a run moves to a
\* later place of convert(), or is a pass of the while loop that lowers r, which
\* stays above m inside the loop.
StopHaltsConversion ==
    /\ []StoppedCleanly
    /\ [][(cv.c.left # None /\ cv'.run = cv.run)
           => \/ PlaceOf(cv.pc) < PlaceOf(cv'.pc)
              \/ /\ cv.pc = "layers" /\ cv'.pc = "layers"
                 /\ cv.m < cv.r /\ cv'.r < cv.r /\ cv'.m = cv.m]_vars

\* A pass in which a mill function returned on the flag after lines that
\* cut had been written.
StoppedAfterCuts ==
    /\ cv.c.left # None /\ cv.c.stop # None
    /\ \E i \in 1..Len(cv.c.g.out) :
          i <= Val(cv.c.stop).lines /\ IsCutLine(cv.c.g.out[i])

SecondRunIdenticalUnstopped ==
    (cv.run = 2 /\ cv.pc = "done" /\ cv.c.left = None) => cv.output_gcode = Val(cv.first)

(***************************************************************************)
(* Properties of WriteGCode.                                               *)
(***************************************************************************)

\* C16: WriteGCode called on a configuration with no image loaded returns
\* without raising, writes no line of G-code, and leaves the attribute gcode
\* of the configuration as it was before the call.
NoImageNoOutput ==
    [][(wg.cfg.im = None /\ ~wg.config_file)
       => /\ wg'.pc = "returned"
          /\ wg'.returned = None
          /\ wg'.gcode = wg.gcode]_vars

\* A call without an image has returned, on a configuration that held lines.
NoImageReturned ==
    /\ wg.pc = "returned" /\ wg.cfg.im = None /\ ~wg.config_file
    /\ wg.gcode # <<>> /\ wg.status = Some("No Image Loaded")

\* A setting of the pass that is run holds a value that is not valid: a
\* tool kind, scan pattern or scan direction other than the ones the
\* setters accept, or a feed that is not positive.
InvalidSetting(cfg, rough_flag) ==
    \/ (IF rough_flag # 0 THEN cfg.ROUGH_TOOL ELSE cfg.tool) \notin {"Ball", "Flat", "V"}
    \/ (IF rough_flag # 0 THEN cfg.ROUGH_SCANPAT ELSE cfg.scanpat)
          \notin {"Rows", "Columns", "C then R"}
    \/ (IF rough_flag # 0 THEN cfg.ROUGH_SCANDIR ELSE cfg.scandir)
          \notin {"Positive", "Negative", "Alternating", "Up Mill", "Down Mill"}
    \/ (IF rough_flag # 0 THEN cfg.ROUGH_R_FEED ELSE cfg.f_feed) <= 0

\* C17: for a configuration with an invalid value the conversion raises an
\* error to the caller before begin() writes any line: the call does not
\* return lines, and no line of G-code reaches the caller through the
\* attribute gcode either.
InvalidConfigRaises ==
    (wg.pc # "call" /\ ~wg.config_file /\ wg.cfg.im # None
       /\ InvalidSetting(wg.cfg, wg.rough_flag))
    => /\ wg.pc = "raised"
       /\ wg.returned = None
       /\ \A i \in 1..Len(wg.gcode) : wg.gcode[i].kind \notin {"units", "move", "arc", "feed"}

\* C18: in config-file mode the call returns a list of lines that is not
\* empty and in which no line is a motion line or a feed line: the comment
\* lines of the header only, with or without an image.
ConfigFileReturnsHeader ==
    (wg.pc # "call" /\ wg.config_file)
    => /\ wg.returned # None
       /\ Val(wg.returned) # <<>>
       /\ \A i \in 1..Len(Val(wg.returned)) :
             /\ Val(wg.returned)[i].kind = "header"
             /\ \E j \in 1..Len(HeaderComments) : HeaderComments[j] = Val(wg.returned)[i].word

\* The same of the attribute gcode, which is where the code leaves the
\* header in config-file mode.
ConfigFileLeavesHeader ==
    (wg.pc # "call" /\ wg.config_file)
    => /\ wg.gcode # <<>>
       /\ \A i \in 1..Len(wg.gcode) :
             /\ wg.gcode[i].kind = "header"
             /\ \E j \in 1..Len(HeaderComments) : HeaderComments[j] = wg.gcode[i].word

(***************************************************************************)
(* Properties of the path of a span.                                       *)
(***************************************************************************)

\* The coordinate that varies along a scan: X in mill_rows, Y in mill_cols.
AlongScan(entry, p) == IF entry.axis = "rows" THEN p[1] ELSE p[2]

\* The swept height of the sample s of a scan: height_calc at its pixel.
SweptHeight(c, entry, s) ==
    IF entry.axis = "rows" THEN HeightCalc(c.image, s[1], entry.j, c.tool_shape)
    ELSE HeightCalc(c.image, entry.j, s[1], c.tool_shape)

\* The straight cut from a to b is, at the coordinate u between them, no
\* more than tol below the height floor.
SegmentClears(entry, a, b, u, floor, tol) ==
    LET d == AlongScan(entry, b) - AlongScan(entry, a)
        t == u - AlongScan(entry, a)
    IN  tol.d * (a[3] * d * d + (b[3] - a[3]) * t * d) >= (floor * tol.d - tol.n) * d * d

\* u lies strictly between the ends of the cut from a to b.
Between(entry, a, b, u) ==
    \/ AlongScan(entry, a) < u /\ u < AlongScan(entry, b)
    \/ AlongScan(entry, b) < u /\ u < AlongScan(entry, a)

\* The straight cuts among the moves rs that flush writes for the queue of
\* a span clear the samples of the span that lie between their ends.
StraightCutsClear(c, entry, rs) ==
    \A n \in 1..(Len(rs) - 1) :
        rs[n + 1].cent = None
        => \A i \in 1..Len(entry.points) :
              Between(entry, rs[n].p, rs[n + 1].p, AlongScan(entry, entry.points[i][2]))
              => SegmentClears(entry, rs[n].p, rs[n + 1].p,
                               AlongScan(entry, entry.points[i][2]),
                               SweptHeight(c, entry, entry.points[i]), c.g.tolerance)

\* C19: for every span queued by mill_rows or mill_cols, the cutting path
\* between two consecutive emitted cut points never passes more than the
\* tolerance below the swept height of a sample of the span that lies
\* between them, also when cut() has dropped samples in the middle of the
\* span.  The path is judged where it is a straight G1 cut.
PathClearsSamplesBetween ==
    \A k \in 1..Len(cv.c.log) :
        cv.c.log[k].cuts # <<>>
        => StraightCutsClear(cv.c, cv.c.log[k],
                             Douglas(cv.c.log[k].cuts, cv.c.g.tolerance, cv.c.log[k].plane, TRUE))

\* The same for the spans of which cut() has dropped no sample.
PathClearsWhenNothingDropped ==
    \A k \in 1..Len(cv.c.log) :
        (cv.c.log[k].cuts # <<>> /\ Len(cv.c.log[k].cuts) = Len(cv.c.log[k].points))
        => StraightCutsClear(cv.c, cv.c.log[k],
                             Douglas(cv.c.log[k].cuts, cv.c.g.tolerance, cv.c.log[k].plane, TRUE))

(***************************************************************************)
(* Properties of the entry cut.                                            *)
(***************************************************************************)

\* The line i of out is the F line by which an entry cut sets the plunge
\* feed.
IsPlungeFeedLine(c, i) ==
    c.g.out[i].kind = "feed" /\ c.g.out[i].f = Some(c.entry_cut.feed)

\* The line at which the n-th entry cut of the step sets the plunge feed.
PlungeFeedLine(c, n) ==
    CHOOSE i \in 1..Len(c.g.out) :
        /\ IsPlungeFeedLine(c, i)
        /\ Cardinality({m \in 1..i : IsPlungeFeedLine(c, m)}) = n

\* The first F line after the line i: where the entry cut restores the feed.
RestoreFeedLine(c, i) ==
    CHOOSE r \in (i + 1)..Len(c.g.out) :
        /\ c.g.out[r].kind = "feed"
        /\ \A k \in (i + 1)..(r - 1) : c.g.out[k].kind # "feed"

\* A span that gets an entry cut.
HasEntryCut(entry) == entry.flag \/ entry.border

\* The line d is a G1 move that goes down to the height z.
IsDescentTo(c, d, z) ==
    /\ c.g.out[d].kind = "move" /\ c.g.out[d].b # None
    /\ (c.g.out[d].word = "G1" \/ (c.g.out[d].word = "" /\ c.g.out[d].was = "G1"))
    /\ c.g.out[d].t[3] = Some(z)

\* The entry cuts of the step are simple, set a plunge feed that differs
\* from the cut feed, and are as many as the F lines of that feed.
SimpleEntryCuts(c) ==
    /\ c.entry_cut.kind = "simple" /\ c.entry_cut.feed # 0
    /\ c.entry_cut.feed # c.feed
    /\ Len(SelectSeq(c.log, HasEntryCut))
         = Cardinality({m \in 1..Len(c.g.out) : IsPlungeFeedLine(c, m)})

\* C20: with the simple entry cut, for every span that requires an entry
\* cut and whose first sample lies below the surface, the descent to the
\* first sample's Z is a G1 move that appears in the output after the F
\* line setting the plunge feed and before the F line restoring the cut
\* feed.
DescentAtPlungeFeed ==
    (cv.pc # "init" /\ SimpleEntryCuts(cv.c))
    => \A n \in 1..Len(SelectSeq(cv.c.log, HasEntryCut)) :
          SelectSeq(cv.c.log, HasEntryCut)[n].points[1][2][3] < 0
          => \E d \in 1..Len(cv.c.g.out) :
                /\ PlungeFeedLine(cv.c, n) < d
                /\ d < RestoreFeedLine(cv.c, PlungeFeedLine(cv.c, n))
                /\ IsDescentTo(cv.c, d, SelectSeq(cv.c.log, HasEntryCut)[n].points[1][2][3])

\* What the code does: the descent is the first cut of the span, written
\* after the F line that restores the cut feed.
DescentAfterRestoredFeed ==
    (cv.pc # "init" /\ SimpleEntryCuts(cv.c))
    => \A n \in 1..Len(SelectSeq(cv.c.log, HasEntryCut)) :
          /\ \A d \in (PlungeFeedLine(cv.c, n) + 1)..(RestoreFeedLine(cv.c, PlungeFeedLine(cv.c, n)) - 1) :
                IsRapidLine(cv.c.g.out[d])
          /\ SelectSeq(cv.c.log, HasEntryCut)[n].points[1][2][3] < 0
             => \E d \in 1..Len(cv.c.g.out) :
                   /\ d > RestoreFeedLine(cv.c, PlungeFeedLine(cv.c, n))
                   /\ IsDescentTo(cv.c, d, SelectSeq(cv.c.log, HasEntryCut)[n].points[1][2][3])
                   /\ \A k \in (RestoreFeedLine(cv.c, PlungeFeedLine(cv.c, n)) + 1)..(d - 1) :
                         IsRapidLine(cv.c.g.out[k])

\* C21: for every arc entry cut with at least two samples, just before the
\* G2 or G3 lead-in line is written the emitted lines have moved the tool
\* to the start of the arc, (x1, p1.y, z1) or (p1.x, y1, z1), with
\* z1 = min(p1.z + r, z_safe); after the lead-in the emitter's tracked
\* position is p1.
ArcLeadInFromArcStart ==
    (op.name = "arc_entry_cut")
    => /\ op.at.x = Some(ArcStart(op.p, op.axis, op.dir, op.radius, g.safetyheight)[1])
       /\ op.at.y = Some(ArcStart(op.p, op.axis, op.dir, op.radius, g.safetyheight)[2])
       /\ op.at.z = Some(ArcStart(op.p, op.axis, op.dir, op.radius, g.safetyheight)[3])
       /\ <<g.lastx, g.lasty, g.lastz>> = <<Some(op.p[1]), Some(op.p[2]), Some(op.p[3])>>

\* The same for the entry cuts whose arc starts below the surface or at the
\* safety height.
ArcLeadInFromDeepStart ==
    (/\ op.name = "arc_entry_cut"
     /\ \/ ArcStart(op.p, op.axis, op.dir, op.radius, g.safetyheight)[3] < 0
        \/ ArcStart(op.p, op.axis, op.dir, op.radius, g.safetyheight)[3] = g.safetyheight)
    => /\ op.at.x = Some(ArcStart(op.p, op.axis, op.dir, op.radius, g.safetyheight)[1])
       /\ op.at.y = Some(ArcStart(op.p, op.axis, op.dir, op.radius, g.safetyheight)[2])
       /\ op.at.z = Some(ArcStart(op.p, op.axis, op.dir, op.radius, g.safetyheight)[3])
       /\ <<g.lastx, g.lasty, g.lastz>> = <<Some(op.p[1]), Some(op.p[2]), Some(op.p[3])>>

(***************************************************************************)
(* Properties of one_pass.                                                 *)
(***************************************************************************)

NotBorder(p) == ~p.border

\* The calls of mill_rows and mill_cols of the pass that are not border
\* passes.
MainPasses(c) == SelectSeq(c.passes, NotBorder)

BothAxes(c) == c.convert_rows # None /\ c.convert_cols # None

PlaneOfAxis(axis) == IF axis = "rows" THEN 18 ELSE 19

\* C22: in every one_pass with arcs enabled, every queue flushed while
\* milling rows is simplified with plane 18 and every queue flushed while
\* milling columns with plane 19, border passes included; when both axes are
\* active the column pass precedes the row pass exactly when columns-first
\* is set, the tool is at safe Z with nothing queued when the second pass
\* starts, and the first pass alone is called with primary = true.
PassPlanesAndOrder ==
    (cv.pc = "end")
    => /\ \A k \in 1..Len(cv.c.flushes) :
             cv.c.flushes[k].plane = Some(PlaneOfAxis(cv.c.flushes[k].axis))
       /\ BothAxes(cv.c)
          => /\ Len(MainPasses(cv.c)) = 2
             /\ Len(cv.c.passes) = 2
             /\ MainPasses(cv.c)[1].axis = (IF cv.c.cols_first_flag THEN "cols" ELSE "rows")
             /\ MainPasses(cv.c)[2].axis = (IF cv.c.cols_first_flag THEN "rows" ELSE "cols")
             /\ MainPasses(cv.c)[1].primary /\ ~MainPasses(cv.c)[2].primary
             /\ MainPasses(cv.c)[2].at.z = Some(cv.c.safetyheight)
             /\ MainPasses(cv.c)[2].cuts = <<>>

\* A pass of both axes, columns first, that has flushed cuts of both.
BothAxesFlushed ==
    /\ cv.pc = "end" /\ BothAxes(cv.c) /\ cv.c.cols_first_flag
    /\ \E k \in 1..Len(cv.c.flushes) : cv.c.flushes[k].axis = "rows"
    /\ \E k \in 1..Len(cv.c.flushes) : cv.c.flushes[k].axis = "cols"
    /\ MainPasses(cv.c)[2].lines > MainPasses(cv.c)[1].lines

IsBorder(entry) == entry.border

\* The indices j of the lines the border pass has scanned, in its order.
BorderLines(c) ==
    [k \in 1..Len(SelectSeq(c.log, IsBorder)) |-> SelectSeq(c.log, IsBorder)[k].j]

\* cut_perimeter with exactly one axis scanned.
HasBorderPass(c) ==
    c.border = 1 /\ ((c.convert_rows = None) # (c.convert_cols = None))

\* The two edge lines of the other axis: rows when columns are scanned.
EdgeLines(c) ==
    {c.pixel_offset, (IF c.convert_rows = None THEN c.w1 ELSE c.h1) - 1 - c.pixel_offset}

\* The border pass has scanned the edge lines, each once, and no other, and
\* the pixelstep is that of before the pass.
BorderIsEdgeLines(c) ==
    /\ {BorderLines(c)[k] : k \in 1..Len(BorderLines(c))} = EdgeLines(c)
    /\ Len(BorderLines(c)) = Cardinality(EdgeLines(c))
    /\ c.pixelstep = SplitPixelstep(Val(c.split).pixelstep, Val(c.split).splitstep)

\* C23: when cut_perimeter is set and exactly one axis is scanned, the
\* border pass of one_pass traverses exactly the two lines of the other axis
\* at index edge_offset_pixels and at index size - 1 - edge_offset_pixels,
\* for every split step and every edge offset, and after one_pass the
\* converter's pixelstep is what it was before.
BorderPassTwoLines ==
    (cv.pc = "end" /\ HasBorderPass(cv.c)) => BorderIsEdgeLines(cv.c)

\* The same for converters without split pixels.
BorderPassTwoLinesUnsplit ==
    (cv.pc = "end" /\ HasBorderPass(cv.c) /\ cv.c.splitpixels = 0) => BorderIsEdgeLines(cv.c)

(***************************************************************************)
(* Properties of the index schedule.                                       *)
(***************************************************************************)

\* A non-empty strictly increasing list of indices of 0..n-1 from
\* pixel_offset to n - 1 - pixel_offset in steps of pixelstep at most.
WellFormedJRange(js, n, pixel_offset, pixelstep) ==
    /\ js # <<>>
    /\ \A k \in 1..Len(js) : js[k] \in 0..(n - 1)
    /\ \A k \in 1..(Len(js) - 1) : js[k] < js[k + 1] /\ js[k + 1] - js[k] <= pixelstep
    /\ js[1] = pixel_offset
    /\ js[Len(js)] = n - 1 - pixel_offset

\* C24: for every number of lines, pixelstep >= 1, splitpixels >= 0 and
\* edge offset with size - 2 * offset >= 1, the index schedule of mill_rows
\* and mill_cols is built without an exception and is a non-empty strictly
\* increasing list of in-range indices from the offset to size - 1 - offset,
\* consecutive indices at most pixelstep apart.
JRangeBuiltWellFormed ==
    /\ cv.pc # "raised"
    /\ cv.pc = "built"
       => WellFormedJRange(Val(cv.jrange), cv.n, cv.pixel_offset, cv.pixelstep)

\* The schedules that are built are well formed.
JRangeWellFormedIfBuilt ==
    cv.pc = "built" => WellFormedJRange(Val(cv.jrange), cv.n, cv.pixel_offset, cv.pixelstep)

(***************************************************************************)
(* Properties of the split step.                                           *)
(***************************************************************************)

\* The converter was built with a split step in (0, 1/2] from a pixelstep
\* of 1 or more.
SplitInHalf(c) ==
    /\ c.split # None
    /\ Val(c.split).pixelstep >= 1
    /\ Val(c.split).splitstep.n > 0
    /\ 2 * Val(c.split).splitstep.n <= Val(c.split).splitstep.d

\* C25: for every pixelstep >= 1 and every split step in (0, 0.5] the
\* pixelstep the Converter stores is 1 or more, and the conversion does not
\* end in the Converter's constructor.
SplitPixelstepPositive ==
    SplitInHalf(cv.c) => cv.c.pixelstep >= 1 /\ cv.raised # Some("ZeroDivisionError")

\* The same where twice the split step times the pixelstep is 1 or more.
SplitPixelstepPositiveFromOne ==
    (/\ SplitInHalf(cv.c)
     /\ 2 * Val(cv.c.split).splitstep.n * Val(cv.c.split).pixelstep
            >= Val(cv.c.split).splitstep.d)
    => cv.c.pixelstep >= 1 /\ cv.raised # Some("ZeroDivisionError")

(***************************************************************************)
(* Properties of the lace reducer.                                         *)
(***************************************************************************)

\* The first index of a subspan, and the index after its last.
LaceS(y) == y.points[1][1]
LaceE(y) == y.points[Len(y.points)][1] + 1

\* y is a slice of the span that holds its bracket.
LaceSliceOfBracket(y) ==
    /\ y.points # <<>>
    /\ y.points = Slice(cv.span, LaceS(y), LaceE(y))
    /\ LaceS(y) <= y.a /\ y.b < LaceE(y)

\* The end of y is on the grid of keep, or the end of the span.
LaceEndAligned(y) == LaceE(y) % cv.keep = 0 \/ LaceE(y) = Len(cv.span)

\* The subspans are disjoint and in increasing order.
LaceInOrder ==
    \A j \in 1..(Len(cv.out) - 1) : LaceE(cv.out[j]) <= LaceS(cv.out[j + 1])

\* C27: every subspan yielded by Reduce_Scan_Lace for a span is a slice
\* [s, e) of the span with s a multiple of keep and e a multiple of keep or
\* the length of the span, and holds every sample of its bracket [a, b]; the
\* subspans of one span are pairwise disjoint and in increasing order.
LaceSubspansAligned ==
    (cv # Idle /\ cv.pc \in {"lace", "done"})
    => /\ \A j \in 1..Len(cv.out) :
             /\ LaceSliceOfBracket(cv.out[j])
             /\ LaceS(cv.out[j]) % cv.keep = 0
             /\ LaceEndAligned(cv.out[j])
       /\ LaceInOrder

\* The same, with the start on the grid only for the subspans yielded inside
\* the loop: holds.
LaceSubspansAlignedInLoop ==
    (cv # Idle /\ cv.pc \in {"lace", "done"})
    => /\ \A j \in 1..Len(cv.out) :
             /\ LaceSliceOfBracket(cv.out[j])
             /\ (cv.pc = "lace" \/ j < Len(cv.out) \/ cv.a = None)
                => LaceS(cv.out[j]) % cv.keep = 0
             /\ LaceEndAligned(cv.out[j])
       /\ LaceInOrder

(***************************************************************************)
(* Properties of the roughing tool.                                        *)
(***************************************************************************)

\* The profile a tool kind names.
KindProfile(kind) ==
    IF kind = "Flat" THEN Endmill ELSE IF kind = "V" THEN VeeCommon ELSE BallTool

\* The shape of the roughing tool of cfg, from ROUGH_TOOL alone.
RoughShape(cfg) == MakeToolShape(KindProfile(cfg.ROUGH_TOOL), cfg.ROUGH_DIA, cfg.ROUGH_OFFSET)

\* C28: in a roughing conversion the tool shape is built from the roughing
\* tool kind alone: ROUGH_TOOL Ball, Flat or V selects the ball, flat or V
\* profile, with the roughing diameter and the rough offset, for every value
\* of the finish tool kind.
RoughToolFromRoughKind ==
    (cv # Idle /\ cv.pc = "tool" /\ cv.rough_flag = 1)
    => Val(cv.TOOL) = RoughShape(cv.cfg)

\* The same where ROUGH_TOOL is Flat or the finish tool is a V exactly when
\* the roughing tool is: holds.
RoughToolFromRoughKindIfAlike ==
    (/\ cv # Idle /\ cv.pc = "tool" /\ cv.rough_flag = 1
     /\ \/ cv.cfg.ROUGH_TOOL = "Flat"
        \/ (cv.cfg.ROUGH_TOOL = "V") = (cv.cfg.tool = "V"))
    => Val(cv.TOOL) = RoughShape(cv.cfg)

(***************************************************************************)
(* Properties of the transparency mask in mill_cols.                       *)
(***************************************************************************)

\* The calls of mill_cols of the pass whose jrange is built.
ColsCalls(c) ==
    {n \in 1..Len(MillCalls(c)) :
        /\ MillCalls(c)[n][1] = "cols"
        /\ ~JRangeRaises(c.h1, c.splitpixels, c.pixel_offset, MillCalls(c)[n][2])}

\* The pairs <<j, i>> for which call n of the pass reads the mask.
ColsReads(c, n) ==
    {<<JRange(c.h1, c.splitpixels, c.pixel_offset, MillCalls(c)[n][2])[k], i>> :
        k \in 1..Len(JRange(c.h1, c.splitpixels, c.pixel_offset, MillCalls(c)[n][2])),
        i \in c.pixel_offset..(c.w1 - c.pixel_offset - 1)}

\* The pass raised IndexError though every jrange before and at the failing
\* call was built: the mask raised it.
MaskRaised ==
    /\ cv.pc = "raised" /\ cv.raised = Some("IndexError")
    /\ \A n \in 1..Len(MillCalls(cv.c)) :
          JRangeRaises(LinesOf(cv.c, MillCalls(cv.c)[n][1]), cv.c.splitpixels,
                       cv.c.pixel_offset, MillCalls(cv.c)[n][2])
          => \E k \in 1..(n - 1) :
                MillOutcome(cv.c, MillCalls(cv.c)[k][1], MillCalls(cv.c)[k][2]) # "ok"

\* C29: for every image of w rows and h columns, w # h included, mill_cols
\* reads the skip mask only at indices inside the mask's shape, and the
\* entry it reads is that of the pixel whose height it evaluates with get_z;
\* column milling never raises an index error at the mask.
ColsMaskReadsOwnPixel ==
    (cv # Idle /\ cv.c.pixelstep >= 1)
    => /\ \A n \in ColsCalls(cv.c) : \A r \in ColsReads(cv.c, n) :
             /\ SkipIndex(r[1], r[2]) \in DOMAIN cv.c.image.matrix_skip
             /\ SkipIndex(r[1], r[2]) = CentreCell(r[1], r[2])
       /\ ~MaskRaised

\* What holds instead: the entry read is that of the transposed pixel, and
\* on a square image every read is inside the mask and the mask never
\* raises.
ColsMaskReadsTransposed ==
    (cv # Idle /\ cv.c.pixelstep >= 1)
    => /\ \A n \in ColsCalls(cv.c) : \A r \in ColsReads(cv.c, n) :
             /\ SkipIndex(r[1], r[2]) = CentreCell(r[2], r[1])
             /\ cv.c.w1 = cv.c.h1
                => SkipIndex(r[1], r[2]) \in DOMAIN cv.c.image.matrix_skip
       /\ cv.c.w1 = cv.c.h1 => ~MaskRaised

\* On an image that is not square every pass with a call of mill_cols whose
\* jrange is built reads outside the mask.
ColsMaskOutsideIfNotSquare ==
    (/\ cv # Idle /\ cv.c.pixelstep >= 1
     /\ cv.c.w1 # cv.c.h1)
    => \A n \in ColsCalls(cv.c) : \E r \in ColsReads(cv.c, n) :
          SkipIndex(r[1], r[2]) \notin DOMAIN cv.c.image.matrix_skip

(***************************************************************************)
(* Properties of the emitter of the command line tool.                     *)
(***************************************************************************)

\* The frames of fn on the stack.
CliFramesOf(fn) == {k \in 1..Len(g.stack) : g.stack[k].fn = fn}

\* C30: in the emitter of the command line tool every call of flush(),
\* rapid() and safety() returns in every reachable state, lastgcode = G0
\* included: flush and rapid never call each other without bound, no call
\* ends in RecursionError, and flush is never entered while it runs.
CliCallsReturn ==
    /\ g.raised = None
    /\ Cardinality(CliFramesOf("flush")) <= 1

\* What holds: a call fails only with lastgcode G0, and without G0 flush
\* runs at most twice at once (under move_common, for a queue).
CliCallsReturnUnlessG0 ==
    /\ g.raised # None => g.lastgcode = "G0"
    /\ g.lastgcode # "G0" => Cardinality(CliFramesOf("flush")) <= 2

====
